---- MODULE Spec2Model ----
(***************************************************************************)
(* The generic scheduler of plugin/pkg/scheduler (generic_scheduler.go):   *)
(* one Schedule attempt, from the node listing through findNodesThatFit,   *)
(* PrioritizeNodes (with its goroutines, mutex and wait group) and         *)
(* selectHost, to the returned (host, error) pair.                         *)
(***************************************************************************)
EXTENDS Integers, Sequences, FiniteSets, TLC

\* ------------------------------------------------------------------ bounds
MaxNodes == 2          \* nodes the node lister can return
MaxPredicates == 2     \* entries of the predicates map
MaxPrioritizers == 2   \* entries of the prioritizers slice
MaxExtenders == 2      \* entries of the extenders slice
MaxRegistered == 3     \* predicates + prioritizers + extenders of one scheduler
MaxWeight == 2         \* weights are 0..MaxWeight
MaxScore == 1          \* scores are 0..MaxScore
MaxRand == 2           \* g.random.Int() is 0..MaxRand
MaxLiveNodes == 1      \* nodes of the fairly scheduled attempt
MaxConcurrentNodes == 1  \* nodes of the concurrent attempts
MaxConcurrentTasks == 1  \* priority functions, and extenders, of the concurrent attempts

VARIABLES
    \* the scheduler and its collaborators (fixed by NewGenericScheduler)
    nodeLister,         \* the list nodeLister.List() returns when it does not fail
    predicates,         \* g.predicates: name -> (node -> result of the predicate)
    prioritizers,       \* g.prioritizers: sequence of [Weight]
    extenders,          \* g.extenders: sequence of extender ids
    \* Schedule
    pc,                 \* position of the goroutine running Schedule
    nodes,              \* nodes.Items (names)
    machinesToPods,     \* "nil" until predicates.MapPodsToMachines returned it
    err,                \* err of Schedule: the error of the last call it checked
    retHost, retErr,    \* what Schedule returned
    \* findNodesThatFit
    nodeIx,             \* index of the node of the outer loop
    remaining,          \* predicates the inner range has not yet visited
    filtered,           \* filtered (names), later filteredNodes.Items
    failedPredicateMap, \* node name -> set of reasons
    extIx,              \* index of the extender of the loop of line 160 / 234
    predCalls,          \* history: <<predicate, node>> -> number of invocations
    extLog,             \* history: the calls of extender.Filter (line 161), in order
    \* PrioritizeNodes
    mu,                 \* holder of mu: <<>> when free, else the task
    wg,                 \* counter of wg
    combinedScores,     \* host -> accumulated score
    errs,               \* errs
    cfgIx,              \* index of the priorityConfig of the loop of line 196
    pTasks,             \* the goroutines of line 203, by priorityConfig index
    eTasks,             \* the goroutines of line 236, by extender index
    extNodes,           \* nodes of line 230
    priorityList,       \* result of PrioritizeNodes, then the sorted list
    \* selectHost
    hosts,              \* hosts of line 113
    randomLock,         \* g.randomLock held
    randInt,            \* what g.random.Int() returned at line 117
    \* the caller of Schedule
    errorString,        \* what the last FitError.Error() returned, "" before any call
    run,                \* 1 in the first attempt, 2 in a repeated one
    first,              \* inputs and outcome of the first attempt, for the repeated one
    peer,               \* a second goroutine running Schedule: its position and locals
    \* pkg/util/validation
    arg,                \* the argument of the validation function called
    result              \* the function called and the bool it returned

vars == <<nodeLister, predicates, prioritizers, extenders, pc, nodes, machinesToPods,
          retHost, retErr, nodeIx, remaining, filtered, failedPredicateMap, extIx,
          predCalls, mu, wg, combinedScores, errs, cfgIx, pTasks, eTasks, extNodes,
          priorityList, hosts, randomLock, err, randInt, errorString, run, first,
          extLog, peer, arg, result>>

\* ------------------------------------------------------------- data model
HostNames == 1..MaxNodes
NoHost == 0            \* the empty host name "" Schedule returns with an error
PredicateName(i) == "predicate" \o ToString(i)
PredicateNames(j) == {PredicateName(i) : i \in 1..j}
ResourceName == "cpu"
Pod == "pod"

\* What a FitPredicate returns: (fit, err), err nil, *InsufficientResourceError or other.
PredicateResults == [fit : BOOLEAN, err : {"nil", "InsufficientResourceError", "other"}]

\* A reason of a FailedPredicateMap entry: a predicate name or a resource name.
PredicateReasonAnonymous(name) == "predicate"
PredicateReason(name) == name
ResourceReason(name) == name

Nil == [kind |-> "nil"]
ErrNoNodesAvailable == [kind |-> "ErrNoNodesAvailable"]
NodeListerError == [kind |-> "nodeLister.List"]
PodListerError == [kind |-> "MapPodsToMachines"]
PredicateError(name) == [kind |-> "predicate", name |-> name]
UnexpectedFitError(name) == [kind |-> "InsufficientResourceError but fit", name |-> name]
ExtenderFilterError(e) == [kind |-> "extender.Filter", extender |-> e]
PriorityError(i) == [kind |-> "priorityFunc", config |-> i]
EmptyPriorityListError == [kind |-> "empty priorityList"]
NewAggregate(list) == [kind |-> "Aggregate", errors |-> list]
FitErrorFreshMap(pod, failed) ==
    [kind |-> "FitError", Pod |-> pod, FailedPredicates |-> <<>>]
FitError(pod, failed) == [kind |-> "FitError", Pod |-> pod, FailedPredicates |-> failed]

EmptyMap == <<>>

\* A HostPriorityList as returned by a priority function or an extender: a map
\* host -> score (a list without repeated hosts), over any hosts it chooses to report.
ScoreLists == UNION {[S -> 0..MaxScore] : S \in SUBSET HostNames}

\* Order-preserving sublists of a list of distinct names.
RECURSIVE SubLists(_)
SubLists(list) ==
    IF list = <<>> THEN {<<>>}
    ELSE LET rest == SubLists(Tail(list))
         IN rest \cup {<<Head(list)>> \o r : r \in rest}

Range(list) == {list[i] : i \in DOMAIN list}

\* Every order in which the elements of S can be listed.
Orders(S) == {s \in [1..Cardinality(S) -> S] : \A i, j \in DOMAIN s : i # j => s[i] # s[j]}

\* Line 161: extender.Filter(pod, &api.NodeList{Items: given}) returned
\* (returned, nil), or an error when failed.
FilterCall(extender, given, returned, failed) ==
    [extender |-> extender, given |-> given, returned |-> returned, failed |-> failed]

IdleTask == [pc |-> "idle", list |-> EmptyMap, weight |-> 0, err |-> FALSE]

\* A second goroutine that has not called Schedule: its position, and its own
\* filtered, failedPredicateMap and combinedScores.
IdlePeer ==
    [pc |-> "idle", filtered |-> <<>>, failedPredicateMap |-> EmptyMap,
     combinedScores |-> EmptyMap]

\* ---------------------------------------------------------- int64 values
\* An int64 in two's complement, as four 16-bit limbs, the most significant first.
Limb == 65536
Int64Zero == <<0, 0, 0, 0>>
NoResult == [fn |-> "none", value |-> FALSE]

\* The int64 of a constant 0 <= n < 2^31.
Int64(n) == <<0, 0, n \div Limb, n % Limb>>

\* The limbs the arguments are built from: the least, the greatest and those
\* around the sign bit.
BoundaryLimbs == {0, 1, (Limb \div 2) - 1, Limb \div 2, Limb - 1}
Int64Inputs == [1..4 -> BoundaryLimbs]

\* The comparisons < and <= of two int64.
Negative(x) == x[1] >= Limb \div 2
UnsignedLess(a, b) == \E i \in 1..4 : a[i] < b[i] /\ \A j \in 1..(i - 1) : a[j] = b[j]
Less(a, b) == IF Negative(a) # Negative(b) THEN Negative(a) ELSE UnsignedLess(a, b)
LessEq(a, b) == a = b \/ Less(a, b)

\* ------------------------------------------------- pkg/util/validation
\* math.MaxInt32, and the constants of validation.go, lines 159-164.
MaxInt32 == 2147483647
minUserID == 0
maxUserID == MaxInt32
minGroupID == 0
maxGroupID == MaxInt32

IsValidPortNumAllowsZero(port) ==
    LessEq(Int64(0), port) /\ Less(port, Int64(65536))

\* validation.go, lines 153-155: return 0 < port && port < 65536.
IsValidPortNum(port) == Less(Int64(0), port) /\ Less(port, Int64(65536))

\* validation.go, lines 167-169: return minGroupID <= gid && gid <= maxGroupID.
IsValidGroupId(gid) == LessEq(Int64(minGroupID), gid) /\ LessEq(gid, Int64(maxGroupID))

\* validation.go, lines 172-174: return minUserID <= uid && uid <= maxUserID.
IsValidUserId(uid) == LessEq(Int64(minUserID), uid) /\ LessEq(uid, Int64(maxUserID))

\* The record of an attempt that has not been made.
NoRun == [retHost |-> NoHost, retErr |-> Nil, randInt |-> 0, pTasks |-> <<>>,
          priorityList |-> <<>>]

\* ------------------------------------------------------------------- Init
Attempt ==
    \E k \in 0..MaxNodes, j \in 0..MaxPredicates, p \in 0..MaxPrioritizers,
       e \in 0..MaxExtenders :
        /\ j + p + e <= MaxRegistered
        /\ nodeLister = [i \in 1..k |-> i]
        /\ predicates \in [PredicateNames(j) -> [1..k -> PredicateResults]]
        /\ prioritizers \in [1..p -> [Weight : 0..MaxWeight]]
        /\ extenders = [i \in 1..e |-> i]
        /\ pc = "Schedule"
        /\ nodes = <<>>
        /\ machinesToPods = "nil"
        /\ retHost = NoHost
        /\ retErr = Nil
        /\ nodeIx = 1
        /\ remaining = {}
        /\ filtered = <<>>
        /\ failedPredicateMap = EmptyMap
        /\ extIx = 1
        /\ predCalls = [c \in PredicateNames(j) \X (1..k) |-> 0]
        /\ extLog = <<>>
        /\ mu = <<>>
        /\ wg = 0
        /\ combinedScores = EmptyMap
        /\ errs = <<>>
        /\ cfgIx = 1
        /\ pTasks = [i \in 1..p |-> IdleTask]
        /\ eTasks = [i \in 1..e |-> IdleTask]
        /\ extNodes = <<>>
        /\ priorityList = <<>>
        /\ hosts = <<>>
        /\ randomLock = FALSE
        /\ err = Nil
        /\ randInt = 0
        /\ errorString = ""
        /\ run = 1
        /\ first = NoRun

\* One goroutine runs Schedule.
Init == Attempt /\ peer = IdlePeer /\ arg = Int64Zero /\ result = NoResult

\* --------------------------------------------------------------- Schedule
Return(host, e) ==
    /\ pc' = "done"
    /\ retHost' = host
    /\ retErr' = e

filterVars == <<nodeIx, remaining, filtered, failedPredicateMap, extIx, predCalls, extLog>>
prioVars == <<mu, wg, combinedScores, errs, cfgIx, pTasks, eTasks, extNodes, priorityList>>
selectVars == <<hosts, randomLock, randInt>>
callerVars == <<errorString, run, first>>
validationVars == <<arg, result>>
configVars == <<nodeLister, predicates, prioritizers, extenders>>
\* What no step of the attempt itself changes.
outerVars == <<configVars, callerVars, validationVars, peer>>

ListNodesNoEmptyCheck ==
    /\ pc = "Schedule"
    /\ \/ /\ err' = NodeListerError
          /\ Return(NoHost, err')
          /\ UNCHANGED nodes
       \/ /\ nodes' = nodeLister
          /\ pc' = "MapPodsToMachines"
          /\ UNCHANGED <<err, retHost, retErr>>
    /\ UNCHANGED <<outerVars, machinesToPods, filterVars, prioVars, selectVars>>

\* Schedule, lines 70-76: list the nodes.
ListNodes ==
    /\ pc = "Schedule"
    /\ \/ /\ err' = NodeListerError
          /\ Return(NoHost, err')
          /\ UNCHANGED nodes
       \/ /\ nodes' = nodeLister
          /\ UNCHANGED err
          /\ IF Len(nodeLister) = 0
             THEN Return(NoHost, ErrNoNodesAvailable)
             ELSE /\ pc' = "MapPodsToMachines"
                  /\ UNCHANGED <<retHost, retErr>>
    /\ UNCHANGED <<outerVars, machinesToPods, filterVars, prioVars, selectVars>>


MapPodsToMachinesUnchecked ==
    /\ pc = "MapPodsToMachines"
    /\ \/ /\ err' = PodListerError
          /\ pc' = "findNodesThatFit"
          /\ remaining' = DOMAIN predicates
          /\ UNCHANGED <<machinesToPods, retHost, retErr>>
       \/ /\ machinesToPods' = "built"
          /\ pc' = "findNodesThatFit"
          /\ remaining' = DOMAIN predicates
          /\ UNCHANGED <<err, retHost, retErr>>
    /\ UNCHANGED <<outerVars, nodes, nodeIx, filtered, failedPredicateMap, extIx,
                   predCalls, extLog, prioVars, selectVars>>

\* Schedule, lines 80-85: build the placement map and enter findNodesThatFit.
MapPodsToMachines ==
    /\ pc = "MapPodsToMachines"
    /\ \/ /\ err' = PodListerError
          /\ Return(NoHost, err')
          /\ UNCHANGED <<machinesToPods, remaining>>
       \/ /\ machinesToPods' = "built"
          /\ pc' = "findNodesThatFit"
          /\ remaining' = DOMAIN predicates
          /\ UNCHANGED <<err, retHost, retErr>>
    /\ UNCHANGED <<outerVars, nodes, nodeIx, filtered, failedPredicateMap, extIx,
                   predCalls, extLog, prioVars, selectVars>>

\* ------------------------------------------------------- findNodesThatFit
InsertReasonByName(map, node, name, r) ==
    LET old == IF node \in DOMAIN map THEN map[node] ELSE {}
    IN [n \in DOMAIN map \cup {node} |->
           IF n = node THEN old \cup {PredicateReason(name)} ELSE map[n]]

InsertReasonFallsThrough(map, node, name, r) ==
    LET old == IF node \in DOMAIN map THEN map[node] ELSE {}
        reasons == IF r.err = "InsufficientResourceError"
                   THEN {ResourceReason(ResourceName), PredicateReason(name)}
                   ELSE {PredicateReason(name)}
    IN [n \in DOMAIN map \cup {node} |-> IF n = node THEN old \cup reasons ELSE map[n]]

\* Lines 144-151: the reason recorded for a node the predicate `name` rejected.
InsertReason(map, node, name, r) ==
    LET old == IF node \in DOMAIN map THEN map[node] ELSE {}
        reason == IF r.err = "InsufficientResourceError"
                  THEN ResourceReason(ResourceName)
                  ELSE PredicateReason(name)
    IN [n \in DOMAIN map \cup {node} |-> IF n = node THEN old \cup {reason} ELSE map[n]]

AppendAlways(list, node, fits) == Append(list, node)

AppendIfFitsInFront(list, node, fits) == IF fits THEN <<node>> \o list ELSE list

\* Lines 155-157: if fits { filtered = append(filtered, node) }.
AppendIfFits(list, node, fits) == IF fits THEN Append(list, node) ELSE list

AbortFilterKeepMap(e) ==
    /\ filtered' = <<>>
    /\ UNCHANGED failedPredicateMap
    /\ err' = e
    /\ Return(NoHost, err')

\* Lines 136, 139, 163 with Schedule's lines 86-88: findNodesThatFit returns
\* (api.NodeList{}, FailedPredicateMap{}, err) and Schedule returns ("", err).
AbortFilter(e) ==
    /\ filtered' = <<>>
    /\ failedPredicateMap' = EmptyMap
    /\ err' = e
    /\ Return(NoHost, err')

PredicateStepNoBreak ==
    /\ pc = "findNodesThatFit"
    /\ nodeIx <= Len(nodes)
    /\ \E name \in remaining :
        LET node == nodes[nodeIx]
            r == predicates[name][node]
        IN /\ predCalls' = [predCalls EXCEPT ![<<name, node>>] = @ + 1]
           /\ IF r.err = "InsufficientResourceError" /\ r.fit
              THEN /\ AbortFilter(UnexpectedFitError(name))
                   /\ UNCHANGED <<nodeIx, remaining>>
              ELSE IF r.err = "other"
              THEN /\ AbortFilter(PredicateError(name))
                   /\ UNCHANGED <<nodeIx, remaining>>
              ELSE IF ~r.fit
              THEN /\ failedPredicateMap' = InsertReason(failedPredicateMap, node, name, r)
                   /\ filtered' = AppendIfFits(filtered, node, FALSE)
                   /\ remaining' = remaining \ {name}
                   /\ UNCHANGED <<nodeIx, pc, err, retHost, retErr>>
              ELSE /\ remaining' = remaining \ {name}
                   /\ UNCHANGED <<nodeIx, filtered, failedPredicateMap, pc, err, retHost,
                                  retErr>>
    /\ UNCHANGED <<outerVars, nodes, machinesToPods, extIx, extLog, prioVars,
                   selectVars>>

PredicateStepTrustsError ==
    /\ pc = "findNodesThatFit"
    /\ nodeIx <= Len(nodes)
    /\ \E name \in remaining :
        LET node == nodes[nodeIx]
            r == predicates[name][node]
        IN /\ predCalls' = [predCalls EXCEPT ![<<name, node>>] = @ + 1]
           /\ IF r.err = "InsufficientResourceError" /\ r.fit
              THEN /\ failedPredicateMap' = InsertReason(failedPredicateMap, node, name, r)
                   /\ filtered' = AppendIfFits(filtered, node, FALSE)
                   /\ nodeIx' = nodeIx + 1
                   /\ remaining' = DOMAIN predicates
                   /\ UNCHANGED <<pc, err, retHost, retErr>>
              ELSE IF r.err = "other"
              THEN /\ AbortFilter(PredicateError(name))
                   /\ UNCHANGED <<nodeIx, remaining>>
              ELSE IF ~r.fit
              THEN /\ failedPredicateMap' = InsertReason(failedPredicateMap, node, name, r)
                   /\ filtered' = AppendIfFits(filtered, node, FALSE)
                   /\ nodeIx' = nodeIx + 1
                   /\ remaining' = DOMAIN predicates
                   /\ UNCHANGED <<pc, err, retHost, retErr>>
              ELSE /\ remaining' = remaining \ {name}
                   /\ UNCHANGED <<nodeIx, filtered, failedPredicateMap, pc, err, retHost,
                                  retErr>>
    /\ UNCHANGED <<outerVars, nodes, machinesToPods, extIx, extLog, prioVars,
                   selectVars>>

PredicateStepRejectionAborts ==
    /\ pc = "findNodesThatFit"
    /\ nodeIx <= Len(nodes)
    /\ \E name \in remaining :
        LET node == nodes[nodeIx]
            r == predicates[name][node]
        IN /\ predCalls' = [predCalls EXCEPT ![<<name, node>>] = @ + 1]
           /\ IF r.err = "InsufficientResourceError" /\ r.fit
              THEN /\ AbortFilter(UnexpectedFitError(name))
                   /\ UNCHANGED <<nodeIx, remaining>>
              ELSE IF r.err = "other"
              THEN /\ AbortFilter(PredicateError(name))
                   /\ UNCHANGED <<nodeIx, remaining>>
              ELSE IF ~r.fit
              THEN /\ AbortFilter(PredicateError(name))
                   /\ UNCHANGED <<nodeIx, remaining>>
              ELSE /\ remaining' = remaining \ {name}
                   /\ UNCHANGED <<nodeIx, filtered, failedPredicateMap, pc, err, retHost,
                                  retErr>>
    /\ UNCHANGED <<outerVars, nodes, machinesToPods, extIx, extLog, prioVars,
                   selectVars>>

\* Lines 129-154 (and 155-157 after a break): one iteration of the range over predicateFuncs for the current
\* node. The map is ranged over in any order.
PredicateStep ==
    /\ pc = "findNodesThatFit"
    /\ nodeIx <= Len(nodes)
    /\ \E name \in remaining :
        LET node == nodes[nodeIx]
            r == predicates[name][node]
        IN /\ predCalls' = [predCalls EXCEPT ![<<name, node>>] = @ + 1]
           /\ IF r.err = "InsufficientResourceError" /\ r.fit
              THEN /\ AbortFilter(UnexpectedFitError(name))
                   /\ UNCHANGED <<nodeIx, remaining>>
              ELSE IF r.err = "other"
              THEN /\ AbortFilter(PredicateError(name))
                   /\ UNCHANGED <<nodeIx, remaining>>
              ELSE IF ~r.fit
              THEN /\ failedPredicateMap' = InsertReason(failedPredicateMap, node, name, r)
                   /\ filtered' = AppendIfFits(filtered, node, FALSE)
                   /\ nodeIx' = nodeIx + 1
                   /\ remaining' = DOMAIN predicates
                   /\ UNCHANGED <<pc, err, retHost, retErr>>
              ELSE /\ remaining' = remaining \ {name}
                   /\ UNCHANGED <<nodeIx, filtered, failedPredicateMap, pc, err, retHost,
                                  retErr>>
    /\ UNCHANGED <<outerVars, nodes, machinesToPods, extIx, extLog, prioVars,
                   selectVars>>

FinishNodeCreatesEntry ==
    /\ pc = "findNodesThatFit"
    /\ nodeIx <= Len(nodes)
    /\ remaining = {}
    /\ filtered' = AppendIfFits(filtered, nodes[nodeIx], TRUE)
    /\ failedPredicateMap' =
           [n \in DOMAIN failedPredicateMap \cup {nodes[nodeIx]} |->
               IF n \in DOMAIN failedPredicateMap THEN failedPredicateMap[n] ELSE {}]
    /\ nodeIx' = nodeIx + 1
    /\ remaining' = DOMAIN predicates
    /\ UNCHANGED <<outerVars, err, pc, nodes, machinesToPods, retHost, retErr,
                   extIx, predCalls, extLog, prioVars, selectVars>>

\* Lines 155-157: the range is exhausted with fits still true.
FinishNode ==
    /\ pc = "findNodesThatFit"
    /\ nodeIx <= Len(nodes)
    /\ remaining = {}
    /\ filtered' = AppendIfFits(filtered, nodes[nodeIx], TRUE)
    /\ nodeIx' = nodeIx + 1
    /\ remaining' = DOMAIN predicates
    /\ UNCHANGED <<outerVars, err, pc, nodes, machinesToPods, retHost, retErr,
                   failedPredicateMap, extIx, predCalls, extLog, prioVars,
                   selectVars>>

\* Line 159: the loop over the nodes is over.
PredicatesDone ==
    /\ pc = "findNodesThatFit"
    /\ nodeIx > Len(nodes)
    /\ pc' = IF Len(filtered) > 0 /\ Len(extenders) # 0 THEN "extenderFilter" ELSE "checkFit"
    /\ UNCHANGED <<outerVars, err, nodes, machinesToPods, retHost, retErr, filterVars,
                   prioVars, selectVars>>


ExtenderFilterKeepsLists ==
    /\ pc = "extenderFilter"
    /\ \/ /\ err' = ExtenderFilterError(extenders[extIx])
          /\ Return(NoHost, err')
          /\ extLog' = Append(extLog, FilterCall(extenders[extIx], filtered, <<>>, TRUE))
          /\ UNCHANGED <<filtered, failedPredicateMap, extIx>>
       \/ \E filteredList \in SubLists(filtered) :
            /\ filtered' = filteredList
            /\ extLog' =
                   Append(extLog, FilterCall(extenders[extIx], filtered, filteredList, FALSE))
            /\ IF Len(filteredList) = 0 \/ extIx = Len(extenders)
               THEN pc' = "checkFit" /\ UNCHANGED extIx
               ELSE pc' = "extenderFilter" /\ extIx' = extIx + 1
            /\ UNCHANGED <<failedPredicateMap, err, retHost, retErr>>
    /\ UNCHANGED <<outerVars, nodes, machinesToPods, nodeIx, remaining, predCalls,
                   prioVars, selectVars>>

ExtenderFilterNoEarlyStop ==
    /\ pc = "extenderFilter"
    /\ \/ /\ AbortFilter(ExtenderFilterError(extenders[extIx]))
          /\ extLog' = Append(extLog, FilterCall(extenders[extIx], filtered, <<>>, TRUE))
          /\ UNCHANGED extIx
       \/ \E filteredList \in SubLists(filtered) :
            /\ filtered' = filteredList
            /\ extLog' =
                   Append(extLog, FilterCall(extenders[extIx], filtered, filteredList, FALSE))
            /\ IF extIx = Len(extenders)
               THEN pc' = "checkFit" /\ UNCHANGED extIx
               ELSE pc' = "extenderFilter" /\ extIx' = extIx + 1
            /\ UNCHANGED <<failedPredicateMap, err, retHost, retErr>>
    /\ UNCHANGED <<outerVars, nodes, machinesToPods, nodeIx, remaining, predCalls,
                   prioVars, selectVars>>

ExtenderFilterNarrowsNodes ==
    /\ pc = "extenderFilter"
    /\ \/ /\ AbortFilter(ExtenderFilterError(extenders[extIx]))
          /\ extLog' = Append(extLog, FilterCall(extenders[extIx], filtered, <<>>, TRUE))
          /\ UNCHANGED <<extIx, nodes>>
       \/ \E filteredList \in SubLists(filtered) :
            /\ filtered' = filteredList
            /\ nodes' = filteredList
            /\ extLog' =
                   Append(extLog, FilterCall(extenders[extIx], filtered, filteredList, FALSE))
            /\ IF Len(filteredList) = 0 \/ extIx = Len(extenders)
               THEN pc' = "checkFit" /\ UNCHANGED extIx
               ELSE pc' = "extenderFilter" /\ extIx' = extIx + 1
            /\ UNCHANGED <<failedPredicateMap, err, retHost, retErr>>
    /\ UNCHANGED <<outerVars, machinesToPods, nodeIx, remaining, predCalls,
                   prioVars, selectVars>>

\* Lines 160-169: one extender's Filter. An extender returns an error or a
\* sublist of the list it was given.
ExtenderFilter ==
    /\ pc = "extenderFilter"
    /\ \/ /\ AbortFilter(ExtenderFilterError(extenders[extIx]))
          /\ extLog' = Append(extLog, FilterCall(extenders[extIx], filtered, <<>>, TRUE))
          /\ UNCHANGED extIx
       \/ \E filteredList \in SubLists(filtered) :
            /\ filtered' = filteredList
            /\ extLog' =
                   Append(extLog, FilterCall(extenders[extIx], filtered, filteredList, FALSE))
            /\ IF Len(filteredList) = 0 \/ extIx = Len(extenders)
               THEN pc' = "checkFit" /\ UNCHANGED extIx
               ELSE pc' = "extenderFilter" /\ extIx' = extIx + 1
            /\ UNCHANGED <<failedPredicateMap, err, retHost, retErr>>
    /\ UNCHANGED <<outerVars, nodes, machinesToPods, nodeIx, remaining, predCalls,
                   prioVars, selectVars>>

CheckFitAlwaysPrioritize ==
    /\ pc = "checkFit"
    /\ pc' = "PrioritizeNodes"
    /\ UNCHANGED <<retHost, retErr>>
    /\ UNCHANGED <<outerVars, err, nodes, machinesToPods, filterVars, prioVars, selectVars>>

\* Line 171 and Schedule's lines 90-97.
CheckFit ==
    /\ pc = "checkFit"
    /\ IF Len(filtered) = 0
       THEN Return(NoHost, FitError(Pod, failedPredicateMap))
       ELSE pc' = "PrioritizeNodes" /\ UNCHANGED <<retHost, retErr>>
    /\ UNCHANGED <<outerVars, err, nodes, machinesToPods, filterVars, prioVars, selectVars>>

\* -------------------------------------------------------- PrioritizeNodes
\* Lines 275-290, on FakeNodeLister(filteredNodes), which never fails.
EqualPriority(list) == [i \in DOMAIN list |-> [Host |-> list[i], Score |-> 1]]

AddScoresUnweighted(combined, list, weight) ==
    [h \in DOMAIN combined \cup DOMAIN list |->
        (IF h \in DOMAIN combined THEN combined[h] ELSE 0)
        + (IF h \in DOMAIN list THEN list[h] ELSE 0)]

\* Lines 215-218 and 244-247: combinedScores[host] += score * weight.
AddScores(combined, list, weight) ==
    [h \in DOMAIN combined \cup DOMAIN list |->
        (IF h \in DOMAIN combined THEN combined[h] ELSE 0)
        + (IF h \in DOMAIN list THEN list[h] * weight ELSE 0)]

\* Lines 181-194.
PrioritizeEnter ==
    /\ pc = "PrioritizeNodes"
    /\ IF Len(prioritizers) = 0 /\ Len(extenders) = 0
       THEN /\ priorityList' = EqualPriority(filtered)
            /\ pc' = "selectHost"
       ELSE /\ pc' = IF Len(prioritizers) = 0 THEN "errCheck" ELSE "launch"
            /\ UNCHANGED priorityList
    /\ UNCHANGED <<outerVars, err, nodes, machinesToPods, retHost, retErr, filterVars,
                   mu, wg, combinedScores, errs, cfgIx, pTasks, eTasks, extNodes,
                   selectVars>>

LaunchPriorityNoSkip ==
    /\ pc = "launch"
    /\ wg' = wg + 1
    /\ pTasks' = [pTasks EXCEPT ![cfgIx].pc = "call"]
    /\ cfgIx' = cfgIx + 1
    /\ pc' = IF cfgIx = Len(prioritizers) THEN "errCheck" ELSE "launch"
    /\ UNCHANGED <<outerVars, err, nodes, machinesToPods, retHost, retErr, filterVars,
                   mu, combinedScores, errs, eTasks, extNodes, priorityList, selectVars>>

\* Lines 196-203: one iteration of the loop over priorityConfigs.
LaunchPriority ==
    /\ pc = "launch"
    /\ IF prioritizers[cfgIx].Weight = 0
       THEN UNCHANGED <<wg, pTasks>>
       ELSE /\ wg' = wg + 1
            /\ pTasks' = [pTasks EXCEPT ![cfgIx].pc = "call"]
    /\ cfgIx' = cfgIx + 1
    /\ pc' = IF cfgIx = Len(prioritizers) THEN "errCheck" ELSE "launch"
    /\ UNCHANGED <<outerVars, err, nodes, machinesToPods, retHost, retErr, filterVars,
                   mu, combinedScores, errs, eTasks, extNodes, priorityList, selectVars>>

PriorityCallRetries(i) ==
    /\ pTasks[i].pc = "call"
    /\ \/ pTasks' = [pTasks EXCEPT ![i].err = TRUE]
       \/ \E list \in ScoreLists :
            pTasks' = [pTasks EXCEPT ![i].pc = "lock", ![i].list = list]
    /\ UNCHANGED <<outerVars, err, pc, nodes, machinesToPods, retHost, retErr, filterVars,
                   mu, wg, combinedScores, errs, cfgIx, eTasks, extNodes, priorityList,
                   selectVars>>

\* Lines 205-208: the goroutine calls its priority function.
PriorityCall(i) ==
    /\ pTasks[i].pc = "call"
    /\ \/ pTasks' = [pTasks EXCEPT ![i].pc = "lock", ![i].err = TRUE]
       \/ \E list \in ScoreLists :
            pTasks' = [pTasks EXCEPT ![i].pc = "lock", ![i].list = list]
    /\ UNCHANGED <<outerVars, err, pc, nodes, machinesToPods, retHost, retErr, filterVars,
                   mu, wg, combinedScores, errs, cfgIx, eTasks, extNodes, priorityList,
                   selectVars>>

\* Lines 209 and 214: mu.Lock().
PriorityLock(i) ==
    /\ pTasks[i].pc = "lock"
    /\ mu = <<>>
    /\ mu' = <<"priority", i>>
    /\ pTasks' = [pTasks EXCEPT ![i].pc = "update"]
    /\ UNCHANGED <<outerVars, err, pc, nodes, machinesToPods, retHost, retErr, filterVars,
                   wg, combinedScores, errs, cfgIx, eTasks, extNodes, priorityList,
                   selectVars>>

\* Lines 210-212 or 215-219, then the deferred wg.Done().
PriorityUpdate(i) ==
    /\ pTasks[i].pc = "update"
    /\ IF pTasks[i].err
       THEN /\ errs' = Append(errs, PriorityError(i))
            /\ UNCHANGED combinedScores
       ELSE /\ combinedScores' =
                   AddScores(combinedScores, pTasks[i].list, prioritizers[i].Weight)
            /\ UNCHANGED errs
    /\ mu' = <<>>
    /\ wg' = wg - 1
    /\ pTasks' = [pTasks EXCEPT ![i].pc = "done"]
    /\ UNCHANGED <<outerVars, err, pc, nodes, machinesToPods, retHost, retErr, filterVars,
                   cfgIx, eTasks, extNodes, priorityList, selectVars>>

\* Lines 222-224 with Schedule's lines 98-100. errs is read without mu and before
\* wg.Wait(): the read races with the appends of line 210 and sees any prefix.
ErrCheck ==
    /\ pc = "errCheck"
    /\ \E n \in 0..Len(errs) :
        IF n # 0
        THEN err' = NewAggregate(SubSeq(errs, 1, n)) /\ Return(NoHost, err')
        ELSE pc' = "wait1" /\ UNCHANGED <<err, retHost, retErr>>
    /\ UNCHANGED <<outerVars, nodes, machinesToPods, filterVars, prioVars, selectVars>>

WaitPrioritiesNoBarrier ==
    /\ pc = "wait1"
    /\ wg' = wg
    /\ IF Len(extenders) # 0
       THEN /\ extNodes' = filtered
            /\ extIx' = 1
            /\ pc' = "launchExt"
       ELSE /\ pc' = "wait2"
            /\ UNCHANGED <<extNodes, extIx>>
    /\ UNCHANGED <<outerVars, err, nodes, machinesToPods, retHost, retErr, nodeIx, remaining,
                   filtered, failedPredicateMap, predCalls, extLog, mu, combinedScores,
                   errs, cfgIx, pTasks, eTasks, priorityList, selectVars>>

\* Lines 227-233: wg.Wait(), then the node list for the extenders. nodeLister is
\* FakeNodeLister(filteredNodes) (line 97), whose List never fails.
WaitPriorities ==
    /\ pc = "wait1"
    /\ wg = 0
    /\ IF Len(extenders) # 0
       THEN /\ extNodes' = filtered
            /\ extIx' = 1
            /\ pc' = "launchExt"
       ELSE /\ pc' = "wait2"
            /\ UNCHANGED <<extNodes, extIx>>
    /\ UNCHANGED <<outerVars, err, nodes, machinesToPods, retHost, retErr, nodeIx, remaining,
                   filtered, failedPredicateMap, predCalls, extLog, mu, wg, combinedScores,
                   errs, cfgIx, pTasks, eTasks, priorityList, selectVars>>

\* Lines 234-236: one iteration of the loop over extenders.
LaunchExtender ==
    /\ pc = "launchExt"
    /\ wg' = wg + 1
    /\ eTasks' = [eTasks EXCEPT ![extIx].pc = "call"]
    /\ extIx' = extIx + 1
    /\ pc' = IF extIx = Len(extenders) THEN "wait2" ELSE "launchExt"
    /\ UNCHANGED <<outerVars, err, nodes, machinesToPods, retHost, retErr, nodeIx, remaining,
                   filtered, failedPredicateMap, predCalls, extLog, mu, combinedScores,
                   errs, cfgIx, pTasks, extNodes, priorityList, selectVars>>

\* Lines 238-242: the goroutine calls ext.Prioritize; on an error it returns.
ExtenderCallNoDone(e) ==
    /\ eTasks[e].pc = "call"
    /\ \/ eTasks' = [eTasks EXCEPT ![e].pc = "done", ![e].err = TRUE]
       \/ \E list \in ScoreLists, weight \in 0..MaxWeight :
            eTasks' = [eTasks EXCEPT ![e].pc = "lock", ![e].list = list,
                                     ![e].weight = weight]
    /\ UNCHANGED <<outerVars, err, pc, nodes, machinesToPods, retHost, retErr, filterVars,
                   mu, wg, combinedScores, errs, cfgIx, pTasks, extNodes, priorityList,
                   selectVars>>

\* Lines 238-242: the goroutine calls its extender; on an error it returns, and
\* the deferred wg.Done() runs.
ExtenderCall(e) ==
    /\ eTasks[e].pc = "call"
    /\ \/ /\ eTasks' = [eTasks EXCEPT ![e].pc = "done", ![e].err = TRUE]
          /\ wg' = wg - 1
       \/ /\ \E list \in ScoreLists, weight \in 0..MaxWeight :
                eTasks' = [eTasks EXCEPT ![e].pc = "lock", ![e].list = list,
                                         ![e].weight = weight]
          /\ UNCHANGED wg
    /\ UNCHANGED <<outerVars, err, pc, nodes, machinesToPods, retHost, retErr, filterVars,
                   mu, combinedScores, errs, cfgIx, pTasks, extNodes, priorityList,
                   selectVars>>

\* Line 243: mu.Lock().
ExtenderLock(e) ==
    /\ eTasks[e].pc = "lock"
    /\ mu = <<>>
    /\ mu' = <<"extender", e>>
    /\ eTasks' = [eTasks EXCEPT ![e].pc = "update"]
    /\ UNCHANGED <<outerVars, err, pc, nodes, machinesToPods, retHost, retErr, filterVars,
                   wg, combinedScores, errs, cfgIx, pTasks, extNodes, priorityList,
                   selectVars>>

\* Lines 244-248, then the deferred wg.Done().
ExtenderUpdate(e) ==
    /\ eTasks[e].pc = "update"
    /\ combinedScores' = AddScores(combinedScores, eTasks[e].list, eTasks[e].weight)
    /\ mu' = <<>>
    /\ wg' = wg - 1
    /\ eTasks' = [eTasks EXCEPT ![e].pc = "done"]
    /\ UNCHANGED <<outerVars, err, pc, nodes, machinesToPods, retHost, retErr, filterVars,
                   errs, cfgIx, pTasks, extNodes, priorityList, selectVars>>

\* Lines 255-258: the range over combinedScores, in any order.
HostPriorityLists(combined) ==
    {[i \in DOMAIN order |-> [Host |-> order[i], Score |-> combined[order[i]]]] :
        order \in Orders(DOMAIN combined)}

\* Lines 253-259: wg.Wait() and the result.
BuildResult ==
    /\ pc = "wait2"
    /\ wg = 0
    /\ priorityList' \in HostPriorityLists(combinedScores)
    /\ pc' = "selectHost"
    /\ UNCHANGED <<outerVars, err, nodes, machinesToPods, retHost, retErr, filterVars,
                   mu, wg, combinedScores, errs, cfgIx, pTasks, eTasks, extNodes,
                   selectVars>>

\* ------------------------------------------------------------- selectHost
\* sort.Sort(sort.Reverse(priorityList)): the list in descending order of score.
ReverseSorted(list) ==
    {[i \in DOMAIN list |-> list[o[i]]] : o \in
        {o \in Orders(DOMAIN list) :
            \A i, j \in DOMAIN list : i < j => list[o[i]].Score >= list[o[j]].Score}}

getBestHostsNoBreak(list) == [i \in DOMAIN list |-> list[i].Host]

\* Lines 262-272: the hosts of the leading entries whose score is list[0].Score.
getBestHosts(list) ==
    LET n == CHOOSE n \in 0..Len(list) :
                 /\ \A i \in 1..n : list[i].Score = list[1].Score
                 /\ n < Len(list) => list[n + 1].Score # list[1].Score
    IN [i \in 1..n |-> list[i].Host]

SelectHostNoEmptyCheck ==
    /\ pc = "selectHost"
    /\ ~randomLock
    /\ priorityList' \in ReverseSorted(priorityList)
    /\ hosts' = getBestHosts(priorityList')
    /\ randomLock' = TRUE
    /\ pc' = "draw"
    /\ UNCHANGED <<retHost, retErr, randInt>>
    /\ UNCHANGED <<outerVars, err, nodes, machinesToPods, filterVars, mu, wg, combinedScores,
                   errs, cfgIx, pTasks, eTasks, extNodes>>

\* Lines 108-115: the sort, getBestHosts and g.randomLock.Lock(), which waits
\* while another goroutine holds the lock.
SelectHost ==
    /\ pc = "selectHost"
    /\ IF Len(priorityList) = 0
       THEN /\ Return(NoHost, EmptyPriorityListError)
            /\ UNCHANGED <<priorityList, hosts, randomLock, randInt>>
       ELSE /\ ~randomLock
            /\ priorityList' \in ReverseSorted(priorityList)
            /\ hosts' = getBestHosts(priorityList')
            /\ randomLock' = TRUE
            /\ pc' = "draw"
            /\ UNCHANGED <<retHost, retErr, randInt>>
    /\ UNCHANGED <<outerVars, err, nodes, machinesToPods, filterVars, mu, wg, combinedScores,
                   errs, cfgIx, pTasks, eTasks, extNodes>>

DrawFirstHost ==
    /\ pc = "draw"
    /\ \E random \in 0..MaxRand :
        /\ randInt' = random
        /\ Return(hosts[1], Nil)
    /\ randomLock' = FALSE
    /\ UNCHANGED <<outerVars, err, nodes, machinesToPods, filterVars, prioVars,
                   hosts>>

\* Lines 117-118 and the deferred Unlock.
DrawHost ==
    /\ pc = "draw"
    /\ \E random \in 0..MaxRand :
        LET ix == random % Len(hosts)
        IN /\ randInt' = random
           /\ Return(hosts[ix + 1], Nil)
    /\ randomLock' = FALSE
    /\ UNCHANGED <<outerVars, err, nodes, machinesToPods, filterVars, prioVars, hosts>>

\* ---------------------------------------------------------- FitError.Error
\* Line 54: fmt.Sprintf("Failed for reason %s and possibly others", reason).
Sprintf(reason) == "Failed for reason " \o reason \o " and possibly others"

\* Line 51, sets.String.PopAny on a set that is not empty: an element of the set
\* is removed from it and returned.
PopAny(set) == {[reason |-> r, set |-> set \ {r}] : r \in set}

\* Lines 44-55: the caller asks the FitError Schedule returned for its string.
\* The range over f.FailedPredicates visits the nodes in any order and pops from
\* every set it meets while reason is empty: the sets that are already empty
\* yield "" and stay as they are, the first other one loses the element that
\* becomes the reason. f.FailedPredicates is the map findNodesThatFit built.
Error ==
    /\ pc = "done"
    /\ retErr.kind = "FitError"
    /\ LET failed == retErr.FailedPredicates
           stocked == {n \in DOMAIN failed : failed[n] # {}}
       IN IF stocked = {}
          THEN /\ errorString' = Sprintf("")
               /\ UNCHANGED <<retErr, failedPredicateMap>>
          ELSE \E n \in stocked : \E popped \in PopAny(failed[n]) :
                /\ errorString' = Sprintf(popped.reason)
                /\ failedPredicateMap' = [failed EXCEPT ![n] = popped.set]
                /\ retErr' = [retErr EXCEPT !.FailedPredicates = failedPredicateMap']
    /\ UNCHANGED <<configVars, validationVars, peer, run, first, err, pc, nodes,
                   machinesToPods, retHost, nodeIx, remaining, filtered, extIx, predCalls,
                   extLog, prioVars, selectVars>>

\* ------------------------------------------------------------------- Spec
Next ==
    \/ ListNodes
    \/ MapPodsToMachines
    \/ PredicateStep
    \/ FinishNode
    \/ PredicatesDone
    \/ ExtenderFilter
    \/ CheckFit
    \/ PrioritizeEnter
    \/ LaunchPriority
    \/ \E i \in DOMAIN pTasks : PriorityCall(i)
    \/ \E i \in DOMAIN pTasks : PriorityLock(i)
    \/ \E i \in DOMAIN pTasks : PriorityUpdate(i)
    \/ ErrCheck
    \/ WaitPriorities
    \/ LaunchExtender
    \/ \E e \in DOMAIN eTasks : ExtenderCall(e)
    \/ \E e \in DOMAIN eTasks : ExtenderLock(e)
    \/ \E e \in DOMAIN eTasks : ExtenderUpdate(e)
    \/ BuildResult
    \/ SelectHost
    \/ DrawHost
    \/ Error

Spec == Init /\ [][Next]_vars

\* ------------------------------------------------------ fair scheduling
\* The goroutine that called Schedule.
MainStep ==
    \/ ListNodes
    \/ MapPodsToMachines
    \/ PredicateStep
    \/ FinishNode
    \/ PredicatesDone
    \/ ExtenderFilter
    \/ CheckFit
    \/ PrioritizeEnter
    \/ LaunchPriority
    \/ ErrCheck
    \/ WaitPriorities
    \/ LaunchExtender
    \/ BuildResult
    \/ SelectHost
    \/ DrawHost

\* The goroutine of line 203 for the i-th priority function, and the goroutine
\* of line 236 for the e-th extender.
PriorityTask(i) ==
    i \in DOMAIN pTasks /\ (PriorityCall(i) \/ PriorityLock(i) \/ PriorityUpdate(i))
ExtenderTask(e) ==
    e \in DOMAIN eTasks /\ (ExtenderCall(e) \/ ExtenderLock(e) \/ ExtenderUpdate(e))

\* Every call returns and the Go scheduler runs every runnable goroutine: a
\* goroutine that can take a step eventually takes one.
Fairness ==
    /\ WF_vars(MainStep)
    /\ \A i \in 1..MaxPrioritizers : WF_vars(PriorityTask(i))
    /\ \A e \in 1..MaxExtenders : WF_vars(ExtenderTask(e))

\* The attempts over at most MaxLiveNodes nodes, fairly scheduled.
InitLive == Init /\ Len(nodeLister) <= MaxLiveNodes

SpecLive == InitLive /\ [][Next]_vars /\ Fairness

\* ------------------------------------------------- concurrent attempts
\* What one call of Schedule owns: its position, its results and the locals of
\* Schedule, findNodesThatFit, PrioritizeNodes and selectHost. g.randomLock and
\* g.random belong to the scheduler.
attemptVars ==
    <<err, pc, nodes, machinesToPods, retHost, retErr, filterVars, prioVars, hosts, randInt>>

\* The reason sets findNodesThatFit can leave for a rejected node: the first
\* failing predicate's name, or the resource it reported.
ReasonSets ==
    {{PredicateReason(name)} : name \in DOMAIN predicates}
        \cup {{ResourceReason(ResourceName)} : name \in DOMAIN predicates}

PeerFilterSharedMap ==
    /\ peer.pc = "Schedule"
    /\ \E rejected \in SUBSET Range(nodeLister) :
         /\ rejected # {} => DOMAIN predicates # {}
         /\ \E failed \in [rejected -> ReasonSets] :
              LET survivors == SelectSeq(nodeLister, LAMBDA n : n \notin rejected)
              IN \E sub \in (IF Len(extenders) = 0 THEN {survivors}
                                                  ELSE SubLists(survivors)) :
                   /\ failedPredicateMap' = failed
                   /\ peer' = IF Len(sub) = 0
                               THEN [IdlePeer EXCEPT !.pc = "done"]
                               ELSE [peer EXCEPT !.pc = "PrioritizeNodes",
                                                 !.filtered = sub]
    /\ UNCHANGED <<configVars, callerVars, validationVars, err, pc, nodes, machinesToPods,
                   retHost, retErr, nodeIx, remaining, filtered, extIx, predCalls, extLog,
                   prioVars, selectVars>>

\* Lines 70-95, run by the second goroutine for its pod: the nodes are listed,
\* the predicates reject some of them (each with its reason), every extender
\* may drop more, and the outcome is kept in this call's filtered and
\* failedPredicateMap. An error, or no survivor, ends the call.
PeerFilter ==
    /\ peer.pc = "Schedule"
    /\ \/ peer' = [IdlePeer EXCEPT !.pc = "done"]
       \/ \E rejected \in SUBSET Range(nodeLister) :
            /\ rejected # {} => DOMAIN predicates # {}
            /\ \E failed \in [rejected -> ReasonSets] :
                 LET survivors == SelectSeq(nodeLister, LAMBDA n : n \notin rejected)
                 IN \E sub \in (IF Len(extenders) = 0 THEN {survivors}
                                                     ELSE SubLists(survivors)) :
                      peer' = IF Len(sub) = 0
                              THEN [IdlePeer EXCEPT !.pc = "done"]
                              ELSE [peer EXCEPT !.pc = "PrioritizeNodes",
                                                !.filtered = sub,
                                                !.failedPredicateMap = failed]
    /\ UNCHANGED <<configVars, callerVars, validationVars, attemptVars, randomLock>>

\* Lines 97-100 with PrioritizeNodes, run by the second goroutine: the scores
\* are summed in this call's combinedScores, over the hosts the priority
\* functions and extenders report; an error ends the call.
PeerPrioritize ==
    /\ peer.pc = "PrioritizeNodes"
    /\ \/ peer' = [IdlePeer EXCEPT !.pc = "done"]
       \/ \E scores \in ScoreLists :
            peer' = [peer EXCEPT !.pc = "selectHost", !.combinedScores = scores]
    /\ UNCHANGED <<configVars, callerVars, validationVars, attemptVars, randomLock>>

\* Lines 108-115, run by the second goroutine: the empty list returns at once,
\* any other waits for g.randomLock and takes it.
PeerSelectHost ==
    /\ peer.pc = "selectHost"
    /\ IF DOMAIN peer.combinedScores = {}
       THEN /\ peer' = [IdlePeer EXCEPT !.pc = "done"]
            /\ UNCHANGED randomLock
       ELSE /\ ~randomLock
            /\ randomLock' = TRUE
            /\ peer' = [peer EXCEPT !.pc = "draw"]
    /\ UNCHANGED <<configVars, callerVars, validationVars, attemptVars>>

PeerDrawKeepsLock ==
    /\ peer.pc = "draw"
    /\ peer' = [IdlePeer EXCEPT !.pc = "done"]
    /\ UNCHANGED <<configVars, callerVars, validationVars, attemptVars, randomLock>>

\* Lines 117-118 and the deferred Unlock, run by the second goroutine.
PeerDraw ==
    /\ peer.pc = "draw"
    /\ randomLock' = FALSE
    /\ peer' = [IdlePeer EXCEPT !.pc = "done"]
    /\ UNCHANGED <<configVars, callerVars, validationVars, attemptVars>>

PeerStep == PeerFilter \/ PeerPrioritize \/ PeerSelectHost \/ PeerDraw

\* Two goroutines call Schedule on the same scheduler.
InitConcurrent ==
    /\ Attempt
    /\ Len(nodeLister) <= MaxConcurrentNodes
    /\ Len(prioritizers) <= MaxConcurrentTasks
    /\ Len(extenders) <= MaxConcurrentTasks
    /\ peer = [IdlePeer EXCEPT !.pc = "Schedule"]
    /\ arg = Int64Zero
    /\ result = NoResult

NextConcurrent ==
    \/ Next
    \/ PeerFilter
    \/ PeerPrioritize
    \/ PeerSelectHost
    \/ PeerDraw

SpecConcurrent ==
    InitConcurrent /\ [][NextConcurrent]_vars /\ Fairness /\ WF_vars(PeerStep)

\* ------------------------------------------------- pkg/util/validation
\* A caller calls one of the three functions with arg.
CallIsValidPortNum ==
    /\ result = NoResult
    /\ result' = [fn |-> "IsValidPortNum", value |-> IsValidPortNum(arg)]
    /\ UNCHANGED <<configVars, callerVars, arg, peer, err, pc, nodes, machinesToPods, retHost,
                   retErr, filterVars, prioVars, selectVars>>

CallIsValidGroupId ==
    /\ result = NoResult
    /\ result' = [fn |-> "IsValidGroupId", value |-> IsValidGroupId(arg)]
    /\ UNCHANGED <<configVars, callerVars, arg, peer, err, pc, nodes, machinesToPods, retHost,
                   retErr, filterVars, prioVars, selectVars>>

CallIsValidUserId ==
    /\ result = NoResult
    /\ result' = [fn |-> "IsValidUserId", value |-> IsValidUserId(arg)]
    /\ UNCHANGED <<configVars, callerVars, arg, peer, err, pc, nodes, machinesToPods, retHost,
                   retErr, filterVars, prioVars, selectVars>>

\* The arguments are drawn from Int64Inputs; no scheduler is involved.
InitValidation ==
    /\ Attempt
    /\ Len(nodeLister) = 0 /\ DOMAIN predicates = {}
    /\ Len(prioritizers) = 0 /\ Len(extenders) = 0
    /\ peer = IdlePeer
    /\ arg \in Int64Inputs
    /\ result = NoResult

NextValidation == CallIsValidPortNum \/ CallIsValidGroupId \/ CallIsValidUserId

SpecValidation == InitValidation /\ [][NextValidation]_vars

\* ------------------------------------------------ a second call of Schedule
\* Lines 66-69: the caller calls Schedule once more on the same scheduler, after
\* the goroutines of the first call have ended. What the first call was given
\* and what it returned is kept in first.
Again ==
    /\ pc = "done"
    /\ run = 1
    /\ \A i \in DOMAIN pTasks : pTasks[i].pc \in {"idle", "done"}
    /\ \A e \in DOMAIN eTasks : eTasks[e].pc \in {"idle", "done"}
    /\ run' = 2
    /\ first' = [retHost |-> retHost, retErr |-> retErr, randInt |-> randInt,
                 pTasks |-> pTasks, priorityList |-> priorityList]
    /\ pc' = "Schedule"
    /\ nodes' = <<>>
    /\ machinesToPods' = "nil"
    /\ err' = Nil
    /\ retHost' = NoHost
    /\ retErr' = Nil
    /\ nodeIx' = 1
    /\ remaining' = {}
    /\ filtered' = <<>>
    /\ failedPredicateMap' = EmptyMap
    /\ extIx' = 1
    /\ predCalls' = [c \in DOMAIN predCalls |-> 0]
    /\ extLog' = <<>>
    /\ mu' = <<>>
    /\ wg' = 0
    /\ combinedScores' = EmptyMap
    /\ errs' = <<>>
    /\ cfgIx' = 1
    /\ pTasks' = [i \in DOMAIN pTasks |-> IdleTask]
    /\ eTasks' = [e \in DOMAIN eTasks |-> IdleTask]
    /\ extNodes' = <<>>
    /\ priorityList' = <<>>
    /\ hosts' = <<>>
    /\ randomLock' = FALSE
    /\ randInt' = 0
    /\ UNCHANGED <<configVars, validationVars, peer, errorString>>

\* The second call is given what the first was given: the node lister (line 70)
\* and MapPodsToMachines (line 80) fail in it iff they failed in the first, every
\* priority function (line 207) returns what it returned in the first, sort.Sort
\* (line 111) puts the same entries in the same order, and g.random.Int() (line
\* 117) returns the same number.
SameInputs ==
    run = 2 =>
        /\ pc # "Schedule" =>
               ((retErr = NodeListerError) <=> (first.retErr = NodeListerError))
        /\ pc \notin {"Schedule", "MapPodsToMachines"} =>
               ((retErr = PodListerError) <=> (first.retErr = PodListerError))
        /\ \A i \in DOMAIN pTasks :
               pTasks[i].pc \notin {"idle", "call"} =>
                  /\ pTasks[i].list = first.pTasks[i].list
                  /\ pTasks[i].err = first.pTasks[i].err
        /\ (pc = "draw" /\ Range(priorityList) = Range(first.priorityList)) =>
               priorityList = first.priorityList
        /\ (pc = "done" /\ retErr = Nil /\ first.retErr = Nil) =>
               randInt = first.randInt

\* A scheduler with priority functions only.
InitTwoRuns == Init /\ DOMAIN predicates = {} /\ Len(extenders) = 0

NextTwoRuns ==
    \/ ListNodes /\ SameInputs'
    \/ MapPodsToMachines /\ SameInputs'
    \/ FinishNode /\ SameInputs'
    \/ PredicatesDone /\ SameInputs'
    \/ CheckFit /\ SameInputs'
    \/ PrioritizeEnter /\ SameInputs'
    \/ LaunchPriority /\ SameInputs'
    \/ \E i \in DOMAIN pTasks : PriorityCall(i) /\ SameInputs'
    \/ \E i \in DOMAIN pTasks : PriorityLock(i) /\ SameInputs'
    \/ \E i \in DOMAIN pTasks : PriorityUpdate(i) /\ SameInputs'
    \/ ErrCheck /\ SameInputs'
    \/ WaitPriorities /\ SameInputs'
    \/ BuildResult /\ SameInputs'
    \/ SelectHost /\ SameInputs'
    \/ DrawHost /\ SameInputs'
    \/ Again

SpecTwoRuns == InitTwoRuns /\ [][NextTwoRuns]_vars

\* ----------------------------------------------------------------- claims
Returned == pc = "done"
Succeeded == pc = "done" /\ retErr = Nil
\* Schedule has returned and the caller has not yet called Error() on the result.
JustReturned == pc = "done" /\ errorString = ""

FilterStage == {"findNodesThatFit", "extenderFilter", "checkFit"}
PrioritizeStage == {"PrioritizeNodes", "launch", "errCheck", "wait1", "launchExt", "wait2"}
SelectStage == {"selectHost", "draw"}

NoPriorityTaskStarted == \A i \in DOMAIN pTasks : pTasks[i] = IdleTask
NoExtenderTaskStarted == \A e \in DOMAIN eTasks : eTasks[e] = IdleTask
NoPredicateInvoked == \A c \in DOMAIN predCalls : predCalls[c] = 0

\* Every priority function and extender reported scores only for nodes it was
\* given: the priority functions FakeNodeLister(filteredNodes), the extenders nodes.
ScoresOnlyForGivenNodes ==
    /\ \A i \in DOMAIN pTasks : DOMAIN pTasks[i].list \subseteq Range(filtered)
    /\ \A e \in DOMAIN eTasks : DOMAIN eTasks[e].list \subseteq Range(extNodes)

PassedEveryPredicate(node) ==
    \A name \in DOMAIN predicates :
        predicates[name][node] = [fit |-> TRUE, err |-> "nil"]

\* C1: when Schedule returns a host and no error, and every priority function and
\* extender reported scores only for nodes it was given, the host is one of the
\* listed nodes, passed every registered predicate and is in the list the
\* extender filters left (filteredNodes).
C1_WinnerIsSurvivor ==
    (Succeeded /\ ScoresOnlyForGivenNodes) =>
        /\ retHost \in Range(nodes)
        /\ retHost \in Range(filtered)
        /\ PassedEveryPredicate(retHost)

\* A winner was returned although a predicate rejected another node, an extender
\* filtered and a priority function scored.
C1_Witness ==
    /\ Succeeded
    /\ ScoresOnlyForGivenNodes
    /\ failedPredicateMap # EmptyMap
    /\ Len(extenders) > 0
    /\ \E i \in DOMAIN pTasks : pTasks[i].pc = "done" /\ pTasks[i].list # EmptyMap

\* C2: the host selectHost returns has the maximal score of the ranking; no host
\* with a score below that of another ranked host is returned, whatever the draw.
C2_WinnerHasMaxScore ==
    Succeeded =>
        \E i \in DOMAIN priorityList :
            /\ priorityList[i].Host = retHost
            /\ \A j \in DOMAIN priorityList : priorityList[j].Score <= priorityList[i].Score

\* A winner was drawn from a ranking that holds a host with a lower score.
C2_Witness ==
    /\ Succeeded
    /\ \E i, j \in DOMAIN priorityList : priorityList[i].Score < priorityList[j].Score

Stage(p) ==
    IF p \in {"Schedule", "MapPodsToMachines"} THEN 1
    ELSE IF p \in FilterStage THEN 2
    ELSE IF p \in PrioritizeStage THEN 3
    ELSE IF p \in SelectStage THEN 4
    ELSE 5

FilterErrorKinds ==
    {"predicate", "InsufficientResourceError but fit", "extender.Filter", "FitError"}

\* What a state of an attempt says about the stages that ran.
C3_Outcome ==
    /\ Returned =>
        \/ retHost # NoHost /\ retErr = Nil
        \/ retHost = NoHost /\ retErr # Nil
    /\ pc \in PrioritizeStage \cup SelectStage => Len(filtered) > 0
    /\ (Returned /\ retErr.kind \in FilterErrorKinds) =>
        /\ NoPriorityTaskStarted /\ NoExtenderTaskStarted
        /\ priorityList = <<>> /\ hosts = <<>>
    /\ (Returned /\ retErr.kind = "Aggregate") => priorityList = <<>> /\ hosts = <<>>

\* A step of the attempt stays in its stage, enters the next one, or returns;
\* a returned attempt runs no stage again.
C3_Step ==
    \/ Stage(pc') = Stage(pc)
    \/ Stage(pc') = Stage(pc) + 1
    \/ pc' = "done" /\ retErr' # Nil

\* C3: an attempt goes through ListCandidates, Filter, Prioritize, Select in that
\* order and returns either a host and no error or no host and an error; once a
\* stage has failed no later stage runs.
C3_StageOrder == [](C3_Outcome) /\ [][C3_Step]_vars

\* An attempt went through all four stages and returned a host.
C3_Witness == Succeeded /\ hosts # <<>> /\ \E i \in DOMAIN pTasks : pTasks[i].pc = "done"

\* C4: when findNodesThatFit returns no error and no node, Schedule returns a
\* FitError holding the pod and the failure map findNodesThatFit returned, and
\* neither a priority function nor an extender's Prioritize is invoked.
C4_NoSurvivorsIsFitError ==
    [][(pc = "checkFit" /\ Len(filtered) = 0) =>
        /\ pc' = "done"
        /\ retHost' = NoHost
        /\ retErr'.kind = "FitError"
        /\ retErr'.Pod = Pod
        /\ retErr'.FailedPredicates = failedPredicateMap
        /\ NoPriorityTaskStarted' /\ NoExtenderTaskStarted']_vars

\* Schedule returned a FitError with a failure map that is not empty, with
\* priority functions registered.
C4_Witness ==
    /\ Returned
    /\ retErr.kind = "FitError"
    /\ retErr.FailedPredicates # EmptyMap
    /\ Len(prioritizers) > 0

\* C5: when the node lister returns an empty list and no error, Schedule returns
\* ErrNoNodesAvailable, not a FitError, and lists no pods and invokes no
\* predicate, priority function or extender.
C5_NoNodesAvailable ==
    Len(nodeLister) = 0 =>
        /\ pc \in {"Schedule", "done"}
        /\ (Returned /\ retErr # NodeListerError) =>
               retErr = ErrNoNodesAvailable /\ retHost = NoHost
        /\ machinesToPods = "nil"
        /\ NoPredicateInvoked /\ NoPriorityTaskStarted /\ NoExtenderTaskStarted

\* ErrNoNodesAvailable was returned by a scheduler with predicates and
\* prioritizers registered.
C5_Witness ==
    /\ Returned
    /\ retErr = ErrNoNodesAvailable
    /\ DOMAIN predicates # {}
    /\ Len(prioritizers) > 0

\* C6: whenever Schedule returns a FitError, every listed node was rejected and
\* the failure map of the error holds, for every listed node, an entry with at
\* least one reason, also for the nodes an extender's Filter removed.
C6_EveryRejectedNodeHasReason ==
    (JustReturned /\ retErr.kind = "FitError") =>
        /\ filtered = <<>>
        /\ \A n \in Range(nodes) :
            /\ n \in DOMAIN retErr.FailedPredicates
            /\ retErr.FailedPredicates[n] # {}

\* The tasks whose scores PrioritizeNodes is to add up: the goroutines of the
\* nonzero-weight priority functions and of the extenders that returned no error.
PriorityContributes(i) ==
    prioritizers[i].Weight # 0 /\ pTasks[i].pc = "done" /\ ~pTasks[i].err
ExtenderContributes(e) == eTasks[e].pc = "done" /\ ~eTasks[e].err

RECURSIVE PrioritySum(_, _)
PrioritySum(i, h) ==
    IF i = 0 THEN 0
    ELSE PrioritySum(i - 1, h)
         + (IF PriorityContributes(i) /\ h \in DOMAIN pTasks[i].list
            THEN pTasks[i].list[h] * prioritizers[i].Weight ELSE 0)

RECURSIVE ExtenderSum(_, _)
ExtenderSum(e, h) ==
    IF e = 0 THEN 0
    ELSE ExtenderSum(e - 1, h)
         + (IF ExtenderContributes(e) /\ h \in DOMAIN eTasks[e].list
            THEN eTasks[e].list[h] * eTasks[e].weight ELSE 0)

ContributedHosts ==
    UNION ({DOMAIN pTasks[i].list : i \in {i \in DOMAIN pTasks : PriorityContributes(i)}}
           \cup {DOMAIN eTasks[e].list : e \in {e \in DOMAIN eTasks : ExtenderContributes(e)}})

RankingReturned ==
    /\ pc \in SelectStage \/ Succeeded
    /\ ~(Len(prioritizers) = 0 /\ Len(extenders) = 0)

C8_PriorityErrorIsReturned ==
    (Returned /\ \E i \in DOMAIN pTasks : pTasks[i].err) =>
        retErr.kind = "Aggregate" /\ retHost = NoHost

\* C9: with no priority function of nonzero weight (none registered, or all of
\* weight 0) and no extender, PrioritizeNodes returns one entry of score 1 for
\* every filtered node.
C9_EqualPriorityDefault ==
    (/\ pc = "selectHost"
     /\ \A i \in DOMAIN prioritizers : prioritizers[i].Weight = 0
     /\ Len(extenders) = 0) =>
        priorityList = [i \in DOMAIN filtered |-> [Host |-> filtered[i], Score |-> 1]]

\* C10: when findNodesThatFit left a node and PrioritizeNodes returned no error,
\* the list handed to selectHost is not empty.
C10_RankingNotEmpty == pc = "selectHost" => Len(priorityList) > 0

\* C11: two calls of Schedule that are given the same nodes, the same placement
\* map, the same results of the priority functions and the same random number
\* return the same host, whatever the order of the range over combinedScores and
\* the interleaving of the goroutines.
C11_SameWinner == (run = 2 /\ Returned) => retHost = first.retHost

\* What the predicates of the registry do on every listed node.
AlwaysRejects(name) ==
    \A n \in DOMAIN predicates[name] : predicates[name][n] = [fit |-> FALSE, err |-> "nil"]
AlwaysAccepts(name) ==
    \A n \in DOMAIN predicates[name] : predicates[name][n] = [fit |-> TRUE, err |-> "nil"]
AlwaysErrors(name) ==
    \A n \in DOMAIN predicates[name] : predicates[name][n].err = "other"
AlwaysLacksResource(name) ==
    \A n \in DOMAIN predicates[name] :
        predicates[name][n] = [fit |-> FALSE, err |-> "InsufficientResourceError"]

\* Schedule went through findNodesThatFit: it listed at least one node and built
\* the placement map.
FilterRan == Returned /\ Len(nodes) > 0 /\ err # PodListerError

\* C12: with two predicates registered, the first rejecting every node and the
\* second returning an error that is not an InsufficientResourceError whenever
\* it is invoked, Schedule returns a FitError and never the error of the second,
\* whatever the order of the range over the predicates map.
C12_RejectionHidesLaterError ==
    (/\ DOMAIN predicates = {PredicateName(1), PredicateName(2)}
     /\ AlwaysRejects(PredicateName(1))
     /\ AlwaysErrors(PredicateName(2))
     /\ FilterRan) =>
        retErr.kind = "FitError"

\* C13 as stated: when a registered predicate rejects every node, Schedule
\* returns a FitError whose failure map holds the name of that predicate for
\* every listed node, whatever other predicates are registered.
C13_RejecterRecordedAmongOthers ==
    \A name \in DOMAIN predicates :
        (AlwaysRejects(name) /\ FilterRan /\ JustReturned) =>
            /\ retErr.kind = "FitError"
            /\ \A n \in Range(nodes) :
                   /\ n \in DOMAIN retErr.FailedPredicates
                   /\ name \in retErr.FailedPredicates[n]

\* C13: when a registered predicate rejects every node and every other
\* registered predicate accepts every node without an error, Schedule returns a
\* FitError whose failure map holds the name of the rejecting predicate for
\* every listed node.
C13_SoleRejecterRecorded ==
    \A name \in DOMAIN predicates :
        (/\ AlwaysRejects(name)
         /\ \A other \in DOMAIN predicates \ {name} : AlwaysAccepts(other)
         /\ FilterRan /\ JustReturned) =>
            /\ retErr.kind = "FitError"
            /\ \A n \in Range(nodes) :
                   /\ n \in DOMAIN retErr.FailedPredicates
                   /\ name \in retErr.FailedPredicates[n]

\* predicate1 rejected both nodes of a scheduler that also has an accepting
\* predicate2, which was invoked before it on node 1.
C13_Witness ==
    /\ JustReturned
    /\ retErr.kind = "FitError"
    /\ Len(nodes) = 2
    /\ DOMAIN predicates = {PredicateName(1), PredicateName(2)}
    /\ AlwaysRejects(PredicateName(1))
    /\ AlwaysAccepts(PredicateName(2))
    /\ predCalls[<<PredicateName(2), 1>>] = 1

\* The reason line 147 or 151 records when the predicate `name` rejects `node`.
RejectionReason(name, node) ==
    IF predicates[name][node].err = "InsufficientResourceError" THEN "cpu" ELSE name

\* An invocation of a predicate that rejects its node (fit false, the range goes
\* on to the next node) records exactly the reason of that rejection.
C14_Step ==
    \A c \in DOMAIN predCalls :
        (/\ predCalls'[c] = predCalls[c] + 1
         /\ ~predicates[c[1]][c[2]].fit
         /\ pc' = "findNodesThatFit") =>
            failedPredicateMap' =
                [n \in DOMAIN failedPredicateMap \cup {c[2]} |->
                    IF n = c[2] THEN {RejectionReason(c[1], c[2])}
                    ELSE failedPredicateMap[n]]

\* A predicate that reports insufficient "cpu" on every node, next to predicates
\* that accept every node, leaves {"cpu"} for every node.
C14_CpuOnly ==
    \A name \in DOMAIN predicates :
        (/\ AlwaysLacksResource(name)
         /\ \A other \in DOMAIN predicates \ {name} : AlwaysAccepts(other)
         /\ FilterRan /\ JustReturned) =>
            /\ retErr.kind = "FitError"
            /\ retErr.FailedPredicates = [n \in Range(nodes) |-> {"cpu"}]

\* C14: the reason recorded for a rejected node is the resource name "cpu" when
\* the rejecting predicate returned an InsufficientResourceError with fit false,
\* and the name of the rejecting predicate otherwise; a predicate reporting
\* insufficient cpu on every node yields the set {"cpu"} for every node and
\* never its own name.
C14_RejectionReason == [](C14_CpuOnly) /\ [][C14_Step]_vars

\* A FitError whose map holds a resource name for one node and a predicate name
\* for the other.
C14_Witness ==
    /\ JustReturned
    /\ retErr.kind = "FitError"
    /\ DOMAIN retErr.FailedPredicates = {1, 2}
    /\ retErr.FailedPredicates[1] = {"cpu"}
    /\ retErr.FailedPredicates[2] \subseteq DOMAIN predicates

\* An invocation that returns an error other than an InsufficientResourceError
\* ends Schedule at once with that error, no host, no filtered node and an empty
\* failure map.
C15_Step ==
    \A c \in DOMAIN predCalls :
        (predCalls'[c] = predCalls[c] + 1 /\ predicates[c[1]][c[2]].err = "other") =>
            /\ pc' = "done"
            /\ retErr' = [kind |-> "predicate", name |-> c[1]]
            /\ err' = retErr'
            /\ retHost' = NoHost
            /\ filtered' = <<>>
            /\ failedPredicateMap' = EmptyMap

\* After the return nothing of the attempt runs.
C15_Over ==
    (Returned /\ retErr.kind = "predicate") =>
        /\ predCalls' = predCalls
        /\ extIx' = extIx
        /\ NoPriorityTaskStarted' /\ NoExtenderTaskStarted'
        /\ filtered' = <<>> /\ failedPredicateMap' = EmptyMap
        /\ retErr' = retErr /\ retHost' = NoHost

\* C15: when an invocation of a predicate returns an error that is not an
\* InsufficientResourceError, whatever fit it returns, findNodesThatFit returns
\* at once that error with an empty node list and an empty failure map, Schedule
\* returns that error and no host, and no further node or predicate is evaluated.
C15_PredicateErrorAborts == [][C15_Step /\ C15_Over]_vars

\* predicate1 rejected node 1, then predicate2 returned (true, error) on node 2
\* before predicate1 was invoked on it.
C15_Witness ==
    /\ Returned
    /\ Len(nodes) = 2
    /\ DOMAIN predicates = {PredicateName(1), PredicateName(2)}
    /\ retErr = [kind |-> "predicate", name |-> PredicateName(2)]
    /\ predicates[PredicateName(1)][1] = [fit |-> FALSE, err |-> "nil"]
    /\ predCalls[<<PredicateName(1), 1>>] = 1
    /\ predicates[PredicateName(2)][2] = [fit |-> TRUE, err |-> "other"]
    /\ predCalls[<<PredicateName(2), 2>>] = 1
    /\ predCalls[<<PredicateName(1), 2>>] = 0

\* C16: when an extender's Prioritize returned an error, Schedule does not fail:
\* PrioritizeNodes returns a ranking and Schedule a host and no error.
C16_ExtenderErrorIsHarmless ==
    (Returned /\ \E e \in DOMAIN eTasks : eTasks[e].err) =>
        retErr = Nil /\ retHost # NoHost

\* The step in which an extender's Filter returns an error.
C17_Step ==
    (pc = "extenderFilter" /\ err'.kind = "extender.Filter") =>
        /\ pc' = "done"
        /\ err' = [kind |-> "extender.Filter", extender |-> extenders[extIx]]
        /\ retErr' = err'
        /\ retHost' = NoHost
        /\ filtered' = <<>>
        /\ failedPredicateMap' = EmptyMap
        /\ extIx' = extIx

\* After the return nothing of the attempt runs: extIx stays at the extender
\* that failed.
C17_Over ==
    (Returned /\ retErr.kind = "extender.Filter") =>
        /\ extIx' = extIx /\ retErr'.extender = extenders[extIx']
        /\ NoPriorityTaskStarted' /\ NoExtenderTaskStarted'
        /\ filtered' = <<>> /\ failedPredicateMap' = EmptyMap
        /\ retErr' = retErr /\ retHost' = NoHost

\* C17: when an extender's Filter returns an error, findNodesThatFit returns that
\* error with an empty node list and an empty failure map and calls no later
\* extender, and Schedule returns that error and no host.
C17_ExtenderFilterErrorAborts == [][C17_Step /\ C17_Over]_vars

\* The first of two extenders failed after a predicate had rejected a node.
C17_Witness ==
    /\ Returned
    /\ Len(extenders) = 2
    /\ retErr = [kind |-> "extender.Filter", extender |-> 1]
    /\ extIx = 1
    /\ \E c \in DOMAIN predCalls : predCalls[c] = 1 /\ ~predicates[c[1]][c[2]].fit

\* C18: when nodeLister.List or MapPodsToMachines returns an error, Schedule
\* returns that error and the empty host name, and no predicate, priority
\* function or extender is invoked.
C18_ListingErrorIsReturned ==
    err \in {NodeListerError, PodListerError} =>
        /\ Returned
        /\ retErr = err
        /\ retHost = NoHost
        /\ err = NodeListerError => nodes = <<>>
        /\ machinesToPods = "nil"
        /\ NoPredicateInvoked /\ NoPriorityTaskStarted /\ NoExtenderTaskStarted
        /\ filtered = <<>> /\ extIx = 1 /\ extNodes = <<>>

\* MapPodsToMachines failed in a scheduler that lists two nodes and has a
\* predicate, a priority function and an extender.
C18_Witness ==
    /\ Returned
    /\ err = PodListerError
    /\ Len(nodes) = 2
    /\ DOMAIN predicates # {}
    /\ Len(prioritizers) > 0
    /\ Len(extenders) > 0

\* The hosts of the ranking that have its maximal score.
TiedAtMax ==
    {priorityList[i].Host : i \in {i \in DOMAIN priorityList :
        \A j \in DOMAIN priorityList : priorityList[j].Score <= priorityList[i].Score}}

\* C19: with N >= 1 hosts tied at the maximal score of the ranking, selectHost
\* returns for the random number r the tied host at index r mod N of the sorted
\* ranking; every tied host sits at exactly one of the indices 0..N-1, and so is
\* returned for exactly one residue class of r.
C19_TieBreak ==
    LET N == Cardinality(TiedAtMax)
    IN /\ pc = "draw" =>
            /\ N >= 1
            /\ Len(hosts) = N
            /\ \A i \in 1..N : hosts[i] = priorityList[i].Host
            /\ \A h \in TiedAtMax :
                   Cardinality({c \in 0..(N - 1) : priorityList[c + 1].Host = h}) = 1
       /\ Succeeded => retHost = priorityList[(randInt % N) + 1].Host

\* Of two hosts tied at the maximum the second was returned for the draw 1.
C19_Witness ==
    /\ Succeeded
    /\ Cardinality(TiedAtMax) = 2
    /\ randInt = 1
    /\ retHost = priorityList[2].Host

\* C20: calls of FitError.Error() leave FailedPredicates as it was when Schedule
\* returned the error: the reason set of every node stays the same.
C20_ErrorLeavesMapUnchanged ==
    [][(Returned /\ retErr.kind = "FitError") =>
          retErr'.FailedPredicates = retErr.FailedPredicates]_vars

Finished(task) == task.pc \in {"idle", "done"}
NoTaskRunning ==
    /\ \A i \in DOMAIN pTasks : Finished(pTasks[i])
    /\ \A e \in DOMAIN eTasks : Finished(eTasks[e])

\* C23: PrioritizeNodes returns, with a ranking or with an error, only after
\* every goroutine it started has ended, so that none appends to errs or adds
\* to combinedScores after the return.
C23_ReturnsAfterTasks == (pc \in SelectStage \/ Returned) => NoTaskRunning

\* combinedScores and errs change only in a step of the goroutine that holds mu.
C24_Write ==
    (combinedScores' # combinedScores \/ errs' # errs) =>
        /\ mu # <<>>
        /\ mu[1] = "priority" => pTasks[mu[2]].pc = "update" /\ pTasks'[mu[2]].pc = "done"
        /\ mu[1] = "extender" => eTasks[mu[2]].pc = "update" /\ eTasks'[mu[2]].pc = "done"

\* At most one goroutine is between mu.Lock() and mu.Unlock(), and it is the
\* holder of mu.
C24_OneHolder ==
    LET inside == {<<"priority", i>> : i \in {i \in DOMAIN pTasks : pTasks[i].pc = "update"}}
                  \cup {<<"extender", e>> : e \in {e \in DOMAIN eTasks : eTasks[e].pc = "update"}}
    IN inside = IF mu = <<>> THEN {} ELSE {mu}

\* The reads of PrioritizeNodes itself: errs at line 222, combinedScores at
\* line 256.
C24_Read ==
    ((pc = "errCheck" /\ pc' # "errCheck") \/ (pc = "wait2" /\ pc' # "wait2")) =>
        NoTaskRunning

\* C24: combinedScores and errs are written only while mu is held, at most one
\* goroutine holds mu, and PrioritizeNodes reads the two (the check of errs, the
\* construction of the ranking) only when no goroutine of it is running.
C24_MutexAndJoin == [](C24_OneHolder) /\ [][C24_Write /\ C24_Read]_vars

\* C25: no goroutine of an extender is started, and the node list for the
\* extenders is not fetched, before every goroutine of a priority function has
\* ended; the ranking is built only after every goroutine of an extender has
\* ended.
C25_WaveBarrier ==
    /\ (pc \in {"launchExt", "wait2"} \/ ~NoExtenderTaskStarted \/ extNodes # <<>>) =>
           \A i \in DOMAIN pTasks :
               pTasks[i].pc = IF prioritizers[i].Weight = 0 THEN "idle" ELSE "done"
    /\ (pc \in SelectStage \/ Succeeded \/ priorityList # <<>>) =>
           \A e \in DOMAIN eTasks : eTasks[e].pc = "done"

\* The goroutine of an extender is adding its scores after two priority
\* functions have added theirs.
C25_Witness ==
    /\ Len(prioritizers) = 2
    /\ \A i \in DOMAIN pTasks : pTasks[i].pc = "done" /\ pTasks[i].list # EmptyMap
    /\ \E e \in DOMAIN eTasks : eTasks[e].pc = "update"

\* The nodes every predicate accepted, in the order of the listing.
PredicateSurvivors == SelectSeq(nodes, PassedEveryPredicate)

FilterStageOver == pc \in {"checkFit"} \cup PrioritizeStage \cup SelectStage \/ Returned

\* C28: extender.Filter is called only when the predicates left a node; the
\* extenders are called in the order of g.extenders; the first is given the nodes
\* the predicates left and every later one the list the one before it returned;
\* after an extender returned an empty list no later one is called; and the
\* nodes findNodesThatFit returns are those the last called extender returned.
C28_ExtenderFilterChain ==
    LET n == Len(extLog)
    IN /\ n <= Len(extenders)
       /\ \A i \in 1..n : extLog[i].extender = extenders[i]
       /\ n > 0 => extLog[1].given = PredicateSurvivors /\ Len(PredicateSurvivors) > 0
       /\ \A i \in 1..(n - 1) :
              /\ ~extLog[i].failed
              /\ Len(extLog[i].returned) > 0
              /\ extLog[i + 1].given = extLog[i].returned
       /\ (FilterStageOver /\ n > 0 /\ ~extLog[n].failed) =>
              /\ filtered = extLog[n].returned
              /\ n < Len(extenders) => extLog[n].returned = <<>>
       /\ (FilterStageOver /\ n = 0 /\ err = Nil) =>
              (Len(extenders) = 0 \/ PredicateSurvivors = <<>>) /\ filtered = PredicateSurvivors

\* The first extender was given the two nodes the predicates left and returned
\* one, the second was given that one and returned none; a predicate had
\* accepted both nodes.
C28_Witness ==
    /\ FilterStageOver
    /\ DOMAIN predicates # {}
    /\ Len(extLog) = 2
    /\ extLog[1].given = <<1, 2>> /\ extLog[1].returned = <<2>>
    /\ extLog[2].given = <<2>> /\ extLog[2].returned = <<>> /\ ~extLog[2].failed

\* No predicate is invoked for a node for which an invoked predicate returned
\* fit false, and a rejection moves on to the next node.
C29_Step ==
    \A c \in DOMAIN predCalls :
        predCalls'[c] = predCalls[c] + 1 =>
            /\ c[2] = nodes[nodeIx]
            /\ \A name \in DOMAIN predicates :
                   predCalls[<<name, c[2]>>] > 0 => predicates[name][c[2]].fit
            /\ (~predicates[c[1]][c[2]].fit /\ predicates[c[1]][c[2]].err # "other") =>
                   pc' = "findNodesThatFit" /\ nodeIx' = nodeIx + 1

\* C29: once a predicate returned fit false for a node, with or without an
\* InsufficientResourceError, no further predicate is invoked for that node in
\* the attempt, and findNodesThatFit goes on with the next node.
C29_ShortCircuit ==
    [](\A c \in DOMAIN predCalls : predCalls[c] <= 1) /\ [][C29_Step]_vars

\* predicate1 rejected node 1, predicate2 was not invoked for it, and a predicate
\* was invoked for node 2.
C29_Witness ==
    /\ Len(nodes) = 2
    /\ DOMAIN predicates = {PredicateName(1), PredicateName(2)}
    /\ ~predicates[PredicateName(1)][1].fit
    /\ predCalls[<<PredicateName(1), 1>>] = 1
    /\ predCalls[<<PredicateName(2), 1>>] = 0
    /\ \E name \in DOMAIN predicates : predCalls[<<name, 2>>] = 1

\* The invocation that returns (true, InsufficientResourceError).
C30_Step ==
    \A c \in DOMAIN predCalls :
        (/\ predCalls'[c] = predCalls[c] + 1
         /\ predicates[c[1]][c[2]] = [fit |-> TRUE, err |-> "InsufficientResourceError"]) =>
            /\ pc' = "done"
            /\ retErr' = [kind |-> "InsufficientResourceError but fit", name |-> c[1]]
            /\ err' = retErr'
            /\ retHost' = NoHost
            /\ filtered' = <<>>
            /\ failedPredicateMap' = EmptyMap

C30_Over ==
    (Returned /\ retErr.kind = "InsufficientResourceError but fit") =>
        /\ predCalls' = predCalls
        /\ filtered' = <<>> /\ failedPredicateMap' = EmptyMap
        /\ NoPriorityTaskStarted' /\ NoExtenderTaskStarted' /\ extLog' = <<>>
        /\ retErr' = retErr /\ retHost' = NoHost

\* C30: when a predicate returns an InsufficientResourceError together with fit
\* true, findNodesThatFit returns an internal error, not a rejection of the
\* node, with an empty node list and an empty failure map, and Schedule returns
\* that error and no host.
C30_FitWithResourceErrorAborts == [][C30_Step /\ C30_Over]_vars

\* predicate2 returned (true, InsufficientResourceError) on node 2 after
\* predicate1 had rejected node 1.
C30_Witness ==
    /\ Returned
    /\ Len(nodes) = 2
    /\ retErr = [kind |-> "InsufficientResourceError but fit", name |-> PredicateName(2)]
    /\ predicates[PredicateName(1)][1] = [fit |-> FALSE, err |-> "nil"]
    /\ predCalls[<<PredicateName(1), 1>>] = 1
    /\ predCalls[<<PredicateName(2), 2>>] = 1

\* An int64 that lies in -2^31 .. 2^31 - 1, and its value.
Fits32(x) ==
    \/ x[1] = 0 /\ x[2] = 0 /\ x[3] < 32768
    \/ x[1] = 65535 /\ x[2] = 65535 /\ x[3] >= 32768
Value32(x) == IF x[3] < 32768 THEN x[3] * 65536 + x[4] ELSE (x[3] - 65536) * 65536 + x[4]
InRange(x, low, high) == Fits32(x) /\ low <= Value32(x) /\ Value32(x) <= high

\* C22: IsValidPortNum(p) is true exactly when 1 <= p <= 65535, and
\* IsValidGroupId(g) and IsValidUserId(u) are true exactly when the id is in
\* 0 .. 2^31 - 1, for 64-bit arguments.
C22_ValidRanges ==
    /\ result.fn = "IsValidPortNum" => (result.value <=> InRange(arg, 1, 65535))
    /\ result.fn = "IsValidGroupId" => (result.value <=> InRange(arg, 0, 2147483647))
    /\ result.fn = "IsValidUserId" => (result.value <=> InRange(arg, 0, 2147483647))

\* IsValidUserId accepted 2^31 - 1.
C22_Witness ==
    /\ result = [fn |-> "IsValidUserId", value |-> TRUE]
    /\ arg = <<0, 0, 32767, 65535>>

\* C26: when every call returns and the goroutines are scheduled fairly, the
\* attempt returns, every launched task ends, the wait group falls back to zero
\* and the mutex is free, for good.
C26_Terminates == <>[](Returned /\ NoTaskRunning /\ wg = 0 /\ mu = <<>>)

\* The attempt returned a host after a priority function and an extender had
\* both failed.
C26_Witness ==
    /\ Succeeded
    /\ wg = 0
    /\ \E i \in DOMAIN pTasks : pTasks[i].pc = "done" /\ pTasks[i].err
    /\ \E e \in DOMAIN eTasks : eTasks[e].pc = "done" /\ eTasks[e].err

\* C21: projected on what one attempt owns, every step of two concurrent
\* attempts is a step of that attempt running alone, or leaves its position,
\* survivors, failure map, score table and ranking as they are; the registries
\* are never written. Only g.randomLock and g.random are shared.
C21_OwnTables == [][Next \/ UNCHANGED <<attemptVars, configVars>>]_vars

\* Both attempts are past filtering and scoring, with different score tables.
C21_Witness ==
    /\ pc = "selectHost"
    /\ peer.pc = "selectHost"
    /\ DOMAIN combinedScores # {}
    /\ DOMAIN peer.combinedScores # {}
    /\ peer.combinedScores # combinedScores

\* C27: at most one attempt at a time is between Lock and Unlock of
\* g.randomLock, the lock is held exactly while an attempt is there (never
\* during filtering or scoring, never after selectHost returned), and an attempt
\* waiting for the lock eventually draws and returns.
C27_OneDrawer == ~(pc = "draw" /\ peer.pc = "draw")
C27_HeldOnlyInDraw == randomLock <=> (pc = "draw" \/ peer.pc = "draw")
C27_Waiting == pc = "selectHost" /\ Len(priorityList) # 0
C27_PeerWaiting == peer.pc = "selectHost" /\ DOMAIN peer.combinedScores # {}
C27_LockAroundDraw ==
    /\ [](C27_OneDrawer /\ C27_HeldOnlyInDraw)
    /\ C27_Waiting ~> Succeeded
    /\ C27_PeerWaiting ~> (peer.pc = "done")

\* One attempt waits for the lock the other one holds.
C27_Witness == C27_Waiting /\ peer.pc = "draw"

\* The range over the nodes is over: findNodesThatFit is at line 159.
PredicatesOver == pc = "findNodesThatFit" /\ nodeIx > Len(nodes)

\* What a predicate returns when it rejects its node: fit false with no error or
\* with an InsufficientResourceError.
Rejection(r) == ~r.fit /\ r.err \in {"nil", "InsufficientResourceError"}

\* An invocation that rejects its node ends nothing: no error is set, the node
\* gets its entry in the failure map and stays out of filtered, and the range
\* goes on with the next node.
C31_Step ==
    \A c \in DOMAIN predCalls :
        (predCalls'[c] = predCalls[c] + 1 /\ Rejection(predicates[c[1]][c[2]])) =>
            /\ pc' = "findNodesThatFit"
            /\ err' = err /\ retErr' = retErr /\ retHost' = retHost
            /\ c[2] \in DOMAIN failedPredicateMap'
            /\ filtered' = filtered
            /\ c[2] \notin Range(filtered')
            /\ nodeIx' = nodeIx + 1

\* An error of the predicates comes from an invocation that returned an error,
\* never from a rejection.
C31_ErrorNotFromRejection ==
    (Returned /\ retErr.kind \in {"predicate", "InsufficientResourceError but fit"}) =>
        \E n \in Range(nodes) :
            /\ predCalls[<<retErr.name, n>>] = 1
            /\ ~Rejection(predicates[retErr.name][n])
            /\ predicates[retErr.name][n].err # "nil"

\* At the end of the range every node was dealt with: the nodes every predicate
\* accepted are in filtered and not in the failure map, the others are in the
\* failure map and not in filtered.
C31_AllEvaluated ==
    PredicatesOver =>
        \A n \in Range(nodes) :
            IF PassedEveryPredicate(n)
            THEN n \in Range(filtered) /\ n \notin DOMAIN failedPredicateMap
            ELSE n \notin Range(filtered) /\ n \in DOMAIN failedPredicateMap

\* C31: a predicate rejecting a node (fit false with no error or with an
\* InsufficientResourceError) never makes findNodesThatFit return an error: the
\* node is recorded in the failure map and left out of filtered, the remaining
\* nodes are still evaluated, and a node every predicate accepts is in filtered
\* however many other nodes were rejected.
C31_RejectionNeverAborts ==
    [](C31_ErrorNotFromRejection /\ C31_AllEvaluated) /\ [][C31_Step]_vars

\* Node 1 was rejected for a resource, node 2 passed both predicates after it.
C31_Witness ==
    /\ PredicatesOver
    /\ Len(nodes) = 2
    /\ Cardinality(DOMAIN predicates) = 2
    /\ \E name \in DOMAIN predicates :
           /\ predicates[name][1] = [fit |-> FALSE, err |-> "InsufficientResourceError"]
           /\ predCalls[<<name, 1>>] = 1
    /\ PassedEveryPredicate(2)
    /\ filtered = <<2>>
    /\ DOMAIN failedPredicateMap = {1}

\* findNodesThatFit returns (filtered, failedPredicateMap, nil) at line 171.
FilterReturnsNoError == pc = "checkFit"

\* C32: whenever findNodesThatFit returns without an error, no node is both a
\* key of the failure map and in the returned list, and every key of the failure
\* map is a listed node for which an invoked predicate returned fit false
\* (extenders return sublists of what they are given).
C32_FailureMapDisjoint ==
    FilterReturnsNoError =>
        /\ DOMAIN failedPredicateMap \cap Range(filtered) = {}
        /\ \A n \in DOMAIN failedPredicateMap :
               /\ n \in Range(nodes)
               /\ \E name \in DOMAIN predicates :
                      predCalls[<<name, n>>] = 1 /\ ~predicates[name][n].fit

\* findNodesThatFit returns node 2 and a failure map for node 1, after an
\* extender's Filter.
C32_Witness ==
    /\ FilterReturnsNoError
    /\ filtered = <<2>>
    /\ DOMAIN failedPredicateMap = {1}
    /\ Len(extLog) = 1

\* The place of x in a list that holds it.
PositionIn(list, x) == CHOOSE i \in DOMAIN list : list[i] = x

\* C33: with no extender registered, the list findNodesThatFit returns holds
\* exactly the listed nodes every predicate accepted, each once and in the order
\* in which the node lister returned them.
C33_SurvivorsInOrder ==
    (FilterReturnsNoError /\ Len(extenders) = 0) =>
        /\ \A i \in DOMAIN filtered :
               filtered[i] \in Range(nodes) /\ PassedEveryPredicate(filtered[i])
        /\ \A n \in Range(nodes) : PassedEveryPredicate(n) => n \in Range(filtered)
        /\ \A i, j \in DOMAIN filtered :
               i < j => PositionIn(nodes, filtered[i]) < PositionIn(nodes, filtered[j])

\* Two predicates accepted both nodes, and no extender is registered.
C33_Witness ==
    /\ FilterReturnsNoError
    /\ Len(extenders) = 0
    /\ Cardinality(DOMAIN predicates) = 2
    /\ filtered = <<1, 2>>
    /\ \A c \in DOMAIN predCalls : predCalls[c] = 1

\* C34: when extenders are registered, the node list handed to every extender's
\* Prioritize is the full list the node lister returned, not only the nodes
\* findNodesThatFit left.
C34_ExtendersScoreFullList == ~NoExtenderTaskStarted => extNodes = nodes

\* No goroutine is started for a priority function of weight 0, so the function
\* is never called and no result of it exists.
C35_NeverInvoked ==
    \A i \in DOMAIN prioritizers : prioritizers[i].Weight = 0 => pTasks[i] = IdleTask

\* The registry keeps its entries, and combinedScores is written only by the
\* goroutine of a priority function of nonzero weight or of an extender.
C35_Step ==
    /\ prioritizers' = prioritizers
    /\ combinedScores' # combinedScores =>
           \/ \E i \in DOMAIN pTasks :
                  /\ prioritizers[i].Weight # 0
                  /\ pTasks[i].pc = "update" /\ pTasks'[i].pc = "done"
           \/ \E e \in DOMAIN eTasks : eTasks[e].pc = "update" /\ eTasks'[e].pc = "done"

\* C35: a priority function registered with weight 0 stays in the registry, is
\* never invoked and adds nothing to combinedScores; as nothing of the attempt
\* depends on what it would return, the ranking does not depend on it either.
C35_ZeroWeightSkipped == [](C35_NeverInvoked) /\ [][C35_Step]_vars

\* A ranking was built from the scores of the function of weight 1 while the
\* function of weight 0 was never called.
C35_Witness ==
    /\ pc = "selectHost"
    /\ Len(prioritizers) = 2
    /\ prioritizers[1].Weight = 0 /\ pTasks[1] = IdleTask
    /\ prioritizers[2].Weight = 1 /\ pTasks[2].pc = "done" /\ ~pTasks[2].err
    /\ Len(priorityList) > 0

\* How far a goroutine of PrioritizeNodes has come.
TaskRank(task) ==
    CASE task.pc = "idle" -> 0
      [] task.pc = "call" -> 1
      [] task.pc = "lock" -> 2
      [] task.pc = "update" -> 3
      [] task.pc = "done" -> 4

\* A goroutine only moves forward, one stage at a time (an extender's goroutine
\* ends at once when Prioritize returned an error): it calls its function in
\* the one step that takes it out of "call", so it calls it at most once.
C36_Step ==
    /\ \A i \in DOMAIN pTasks :
           pTasks'[i] # pTasks[i] => TaskRank(pTasks'[i]) = TaskRank(pTasks[i]) + 1
    /\ \A e \in DOMAIN eTasks :
           eTasks'[e] # eTasks[e] =>
               \/ TaskRank(eTasks'[e]) = TaskRank(eTasks[e]) + 1
               \/ eTasks[e].pc = "call" /\ eTasks'[e].pc = "done" /\ eTasks'[e].err

\* Past the first barrier the goroutine of every nonzero-weight priority
\* function has called it and ended; past the second the goroutine of every
\* extender has.
C36_AtBarrier ==
    /\ pc \in {"launchExt", "wait2"} =>
           \A i \in DOMAIN pTasks : prioritizers[i].Weight # 0 => pTasks[i].pc = "done"
    /\ RankingReturned =>
           /\ \A i \in DOMAIN pTasks : prioritizers[i].Weight # 0 => pTasks[i].pc = "done"
           /\ \A e \in DOMAIN eTasks : eTasks[e].pc = "done"

\* No predicate is invoked twice for a node, and every predicate was invoked
\* once for each node the predicate loop has accepted.
C36_Predicates ==
    /\ \A c \in DOMAIN predCalls : predCalls[c] <= 1
    /\ \A n \in Range(nodes) :
           (PositionIn(nodes, n) < nodeIx /\ PassedEveryPredicate(n)) =>
               \A name \in DOMAIN predicates : predCalls[<<name, n>>] = 1

\* C36: in one attempt every nonzero-weight priority function and every
\* extender's Prioritize is invoked exactly once when PrioritizeNodes runs to its
\* barriers, and every predicate is invoked at most once per node, exactly once
\* for every node that passes all predicates.
C36_InvokedOnce == [](C36_AtBarrier /\ C36_Predicates) /\ [][C36_Step]_vars

\* A ranking was returned after one priority function and one extender were
\* called, and the predicate was invoked once for the node it accepted and once
\* for the node it rejected.
C36_Witness ==
    /\ pc = "selectHost"
    /\ Len(nodes) = 2
    /\ Cardinality(DOMAIN predicates) = 1
    /\ \A c \in DOMAIN predCalls : predCalls[c] = 1
    /\ PassedEveryPredicate(1) /\ ~PassedEveryPredicate(2)
    /\ Len(prioritizers) = 1 /\ pTasks[1].pc = "done"
    /\ Len(extenders) = 1 /\ eTasks[1].pc = "done"

\* The placement map is built by line 80 and by nothing else, once; the node
\* list is set by line 70 and by nothing else.
C37_BuiltOnce ==
    /\ machinesToPods' # machinesToPods =>
           pc = "MapPodsToMachines" /\ machinesToPods = "nil" /\ machinesToPods' = "built"
    /\ nodes' # nodes => pc = "Schedule" /\ nodes = <<>> /\ nodes' = nodeLister

\* Every call of a predicate and of a priority function is made with the map
\* line 80 built, and leaves it as it is.
C37_SameMapPassed ==
    /\ predCalls' # predCalls => machinesToPods = "built" /\ machinesToPods' = "built"
    /\ \A i \in DOMAIN pTasks :
           (pTasks[i].pc = "call" /\ pTasks'[i].pc # "call") =>
               machinesToPods = "built" /\ machinesToPods' = "built"

\* C37: the placement map is built once per attempt, every predicate and every
\* priority function is called with that map, and findNodesThatFit,
\* PrioritizeNodes and selectHost modify neither the map nor the node list the
\* node lister returned.
C37_PlacementMapReadOnly ==
    /\ [][C37_BuiltOnce /\ C37_SameMapPassed]_vars
    /\ [](pc \in FilterStage \cup PrioritizeStage \cup SelectStage =>
              machinesToPods = "built" /\ nodes = nodeLister)

\* A host was returned after a predicate, an extender's Filter and a priority
\* function had run, and the node list still holds the node that was rejected.
C37_Witness ==
    /\ Succeeded
    /\ machinesToPods = "built"
    /\ nodes = <<1, 2>>
    /\ Len(filtered) = 1
    /\ Len(extLog) = 1
    /\ \E c \in DOMAIN predCalls : predCalls[c] = 1
    /\ \E i \in DOMAIN pTasks : pTasks[i].pc = "done"

\* C38: the reason quoted in the string Error() gives for the FitError Schedule
\* returned is an element of the reason set of some node in the error's failure
\* map, however the nodes came to be rejected.
C38_QuotedReasonIsRecorded ==
    [][(JustReturned /\ retErr.kind = "FitError" /\ errorString' # errorString) =>
          \E n \in DOMAIN retErr.FailedPredicates :
              \E reason \in retErr.FailedPredicates[n] :
                  errorString' = Sprintf(reason)]_vars

\* C39: whenever findNodesThatFit returns without an error, every entry of the
\* failure map holds exactly one reason: the evaluation of a node stops at its
\* first rejection (node names are distinct).
C39_OneReasonPerEntry ==
    FilterReturnsNoError =>
        \A n \in DOMAIN failedPredicateMap : Cardinality(failedPredicateMap[n]) = 1

\* Both nodes were rejected, node 1 after another predicate had accepted it, one
\* for a resource and one by a predicate's name.
C39_Witness ==
    /\ FilterReturnsNoError
    /\ Cardinality(DOMAIN predicates) = 2
    /\ DOMAIN failedPredicateMap = {1, 2}
    /\ failedPredicateMap[1] # failedPredicateMap[2]
    /\ \A name \in DOMAIN predicates : predCalls[<<name, 1>>] = 1

\* Between Lock and Unlock hosts is not empty and holds exactly the hosts of the
\* ranking that have its greatest score, and every draw gives an index of hosts.
C40_IndexInRange ==
    pc = "draw" =>
        /\ Len(priorityList) > 0
        /\ Len(hosts) >= 1
        /\ Range(hosts) =
               {priorityList[i].Host : i \in {i \in DOMAIN priorityList :
                   \A j \in DOMAIN priorityList :
                       priorityList[j].Score <= priorityList[i].Score}}
        /\ \A random \in 0..MaxRand :
               (random % Len(hosts)) + 1 \in DOMAIN hosts

\* selectHost on an empty list returns ("", error) and leaves g.randomLock and
\* g.random alone; the host it returns otherwise is the one at the drawn index.
C40_Step ==
    /\ (pc = "selectHost" /\ Len(priorityList) = 0 /\ pc' # pc) =>
           /\ pc' = "done"
           /\ retHost' = NoHost
           /\ retErr' = EmptyPriorityListError
           /\ randomLock' = randomLock /\ ~randomLock'
           /\ randInt' = randInt
    /\ (pc = "draw" /\ pc' # pc) =>
           /\ pc' = "done" /\ retErr' = Nil
           /\ retHost' = hosts[(randInt' % Len(hosts)) + 1]

\* C40: for every ranking that is not empty and every value of the draw,
\* getBestHosts returns a list that is not empty and the index selectHost
\* computes is an index of that list; for an empty ranking selectHost returns
\* an error and the empty name without touching g.random or g.randomLock.
C40_SelectorInRange == [](C40_IndexInRange) /\ [][C40_Step]_vars

\* With two hosts tied the draw MaxRand wrapped around to the first of them.
C40_Witness ==
    /\ Succeeded
    /\ Len(hosts) = 2
    /\ randInt = MaxRand
    /\ retHost = hosts[(MaxRand % 2) + 1]

====
